---- MODULE Spec2Model ----
(***************************************************************************)
(* Task lifecycle engine of codex-tasks: one task directory on disk, the   *)
(* detached worker that owns it, and the control operations (start, send,  *)
(* status, stop, archive) that other processes run against it.             *)
(*                                                                         *)
(* The repository holds two generations of the control surface:            *)
(*   - the task service (src/tasks/service.rs, used by the MCP adapter and *)
(*     by src/commands): SIGTERM-based stop, send that launches a worker;  *)
(*   - the command-line binary (src/main.rs with src/status.rs):           *)
(*     /quit-based stop, send that writes to the prompt FIFO.              *)
(* Both run against the worker of src/worker/child.rs.  Spec / SpecConc /  *)
(* SpecFair use the service operations, SpecCli the command-line ones.     *)
(* SpecWatch, SpecLines, SpecLog, SpecProbe and SpecFollow look at one     *)
(* part each: status during a stop, prompt framing on the FIFO, the order  *)
(* of task.log, the liveness probes, and the follow loop of the log        *)
(* command.                                                                *)
(***************************************************************************)
EXTENDS Integers, Sequences, FiniteSets, TLC

\* ------------------------------------------------------------------ bounds
MaxLog == 1       \* assistant output lines per run of the model
MaxFifo == 2      \* lines the prompt FIFO holds before a writer blocks
MaxDay == 2       \* UTC days (archive buckets) the clock can reach
MaxRespawn == 2   \* workers launched by send_prompt
MaxTasks == 2     \* task ids in the store of the batch operations
MaxStamp == 2     \* distinct updated_at instants
MaxDepth == 2     \* bucket levels between archive/ and a task directory
MaxBuckets == 2   \* bucket names on one level of the archive tree
MaxLines == 4     \* lines the assistant emits in the detailed log path
MaxPid == 2       \* largest pid value handed to the liveness probes

Procs == {"c1", "c2"}          \* control processes (CLI / MCP invocations)
Days == 1..MaxDay
TaskIds == 1..MaxTasks         \* directory names, in read_dir order
Stamps == 1..MaxStamp

RUNNING == "RUNNING"
STOPPED == "STOPPED"
ARCHIVED == "ARCHIVED"
DIED == "DIED"
TaskState == {RUNNING, STOPPED, ARCHIVED, DIED}

None == "none"
WPid == "wpid"                 \* contents of task.pid written by the worker
InitialPrompt == "p0"
Prompts == {"p1", "p2"}        \* follow-up prompts
Blank == " "                   \* a prompt that is empty after trim()
Quit == "/quit"
TwoLines == "p1<LF>p2"         \* a prompt text with a newline inside

VARIABLES
    \* --- active task directory <root>/<id>
    dir,        \* the directory exists
    json,       \* task.json: [state, last_prompt, last_result], NoMeta if absent
    pidf,       \* task.pid: None or the recorded pid
    pipe,       \* task.pipe (the FIFO node) exists
    log,        \* task.log: number of lines on disk
    result,     \* task.result: None or the prompt whose answer it holds
    archive,    \* archive/YYYY/MM/DD/<id>, one slot per day bucket
    today,      \* the UTC day Utc::now() falls in
    \* --- worker process (src/worker/child.rs)
    alive,      \* the worker process exists
    wpc,        \* its position
    wmeta,      \* record read by the update_metadata in progress
    wprompt,    \* prompt of the invocation in progress
    wbuf,       \* log lines held in memory (pre-session buffer / BufWriter)
    wexit,      \* exit state computed for the finished invocation
    wres,       \* the assistant left a last-message file
    sig,        \* signal sent to the worker and not yet delivered
    fifo,       \* lines queued in the FIFO
    handshake,  \* the worker printed the task id on its stdout
    exitcode,   \* how the worker process ended
    \* --- control processes
    pc,         \* position of each control process (idle between operations)
    lmeta, lpid, lder, larg, lnow, lsnap,   \* locals of the operation in progress
    outcome,    \* what the operation that returned last returned
    \* --- observations
    respawns,   \* workers launched by send_prompt
    spawned,    \* processes launched by send_prompt that are alive
    sentLog,    \* lines whose send returned success, in completion order
    turns,      \* prompts for which an assistant invocation was started
    \* --- a store holding several tasks, and the operation that walks it
    tstore,     \* per task id: where its directory is and what it holds
    bpc,        \* position of the batch operation (idle between operations)
    bloc,       \* its locals: selected ids, ids still to do, result groups
    bout,       \* what the store-wide operation that returned last returned
    \* --- the worker's log path in detail
    logio,      \* buffered lines, BufWriter contents, task.log, lines received
    \* --- a `log --follow` process (src/commands/log.rs)
    follow      \* its position, what it follows, lines read, idle_pending

fsVars == <<dir, json, pidf, pipe, log, result, archive, today>>
wkVars == <<alive, wpc, wmeta, wprompt, wbuf, wexit, wres, sig, fifo, handshake, exitcode>>
ctlVars == <<pc, lmeta, lpid, lder, larg, lnow, lsnap, outcome>>
batchVars == <<tstore, bpc, bloc, bout, logio, follow>>
obsVars == <<respawns, spawned, sentLog, turns, batchVars>>
vars == <<fsVars, wkVars, ctlVars, obsVars>>

\* ------------------------------------------------------------ data helpers
NoMeta == [state |-> None, last_prompt |-> None, last_result |-> None]

\* TaskMetadata::new followed by the prompt assignments of initialize_session
NewMetadata(state, prompt) ==
    [state |-> state, last_prompt |-> prompt, last_result |-> None]

\* TaskMetadata::set_state
set_state(m, state) == [m EXCEPT !.state = state]

NoDir == [exists |-> FALSE, json |-> NoMeta, pidf |-> None, pipe |-> FALSE,
          log |-> 0, result |-> None]

NoOutcome == [kind |-> None]
NoSnap == [json |-> NoMeta, pidf |-> None, pipe |-> FALSE, log |-> 0, result |-> None]

\* a task id without a directory
NoTask == [loc |-> "none", state |-> None, pid |-> FALSE, live |-> FALSE, updated |-> 0]

NoBatch == [sel |-> <<>>, rest |-> <<>>, reports |-> <<>>,
            snap |-> [t \in TaskIds |-> NoTask],
            skipped |-> <<>>, archived |-> <<>>, already |-> <<>>, failures |-> <<>>]

\* no line received, no session, an empty task.log
NoLog == [session |-> FALSE, out |-> <<>>, err |-> <<>>, writer |-> <<>>,
          file |-> <<>>, recv |-> <<>>]

\* no log command is running
NoFollow == [pc |-> "off", forever |-> FALSE, metadata |-> None, state |-> None,
             pos |-> 0, idle_pending |-> FALSE]

\* is_process_running of src/commands/common.rs: the only pid ever recorded
\* is the worker's, so the probe answers whether the worker process exists.
is_process_running(pid) == pid = WPid /\ alive

\* derive_active_state of src/tasks/status.rs (running is the probe's answer)
derive_state_without_pid(stored) == IF stored = RUNNING THEN DIED ELSE stored

derive_active_state(stored, pid, running) ==
    IF pid # None /\ running
    THEN (IF stored = DIED THEN RUNNING ELSE stored)
    ELSE derive_state_without_pid(stored)

\* derive_active_state of src/status.rs (command-line status and archive)
cli_derive_active_state(stored, pid, running) ==
    IF pid # None
    THEN (IF running THEN RUNNING ELSE DIED)
    ELSE (IF stored = RUNNING THEN DIED ELSE stored)

\* TaskStore::find_archived_task: the first bucket holding a directory <id>
ArchivedDays == {d \in Days : archive[d].exists}
find_archived_task == IF ArchivedDays = {} THEN 0
                      ELSE CHOOSE d \in ArchivedDays : \A e \in ArchivedDays : d <= e

\* the worker holds the FIFO open (read-write) from PromptReader::new on
PipeOpenPcs == {"init_hs", "turn", "end_read", "end_write", "res_file", "res_read",
                "res_write", "end_ret", "next", "inv_read", "inv_write", "inv_spawn",
                "sd_read", "sd_write", "sd_pipe", "sd_pid", "sd_exit"}
ReaderOpen == alive /\ wpc \in PipeOpenPcs

TypeOK ==
    /\ dir \in BOOLEAN /\ pipe \in BOOLEAN /\ alive \in BOOLEAN
    /\ json.state \in TaskState \cup {None}
    /\ pidf \in {None, WPid}
    /\ log \in 0..MaxLog /\ wbuf \in 0..MaxLog
    /\ today \in Days
    /\ Len(fifo) <= MaxFifo
    /\ respawns \in 0..MaxRespawn /\ spawned \in 0..MaxRespawn

Init ==
    /\ dir = FALSE /\ json = NoMeta /\ pidf = None /\ pipe = FALSE
    /\ log = 0 /\ result = None
    /\ archive = [d \in Days |-> NoDir]
    /\ today = 1
    /\ alive = FALSE /\ wpc = "unborn" /\ wmeta = NoMeta /\ wprompt = None
    /\ wbuf = 0 /\ wexit = None /\ wres = FALSE /\ sig = None /\ fifo = <<>>
    /\ handshake = FALSE /\ exitcode = None
    /\ pc = [c \in Procs |-> "idle"]
    /\ lmeta = [c \in Procs |-> NoMeta]
    /\ lpid = [c \in Procs |-> None]
    /\ lder = [c \in Procs |-> None]
    /\ larg = [c \in Procs |-> None]
    /\ lnow = [c \in Procs |-> 1]
    /\ lsnap = [c \in Procs |-> NoSnap]
    /\ outcome = NoOutcome
    /\ respawns = 0 /\ spawned = 0 /\ sentLog = <<>> /\ turns = <<>>
    /\ tstore = [t \in TaskIds |-> NoTask]
    /\ bpc = "idle" /\ bloc = NoBatch /\ bout = NoOutcome
    /\ logio = NoLog
    /\ follow = NoFollow

\* ======================================================= worker (child.rs)
\* The worker process ends: its descriptors close, so lines still queued in
\* the FIFO are discarded and a pending signal has nobody to reach.
Die(code) ==
    /\ alive' = FALSE /\ wpc' = "dead" /\ exitcode' = code
    /\ fifo' = <<>> /\ sig' = None /\ wbuf' = 0 /\ wmeta' = NoMeta
    /\ wexit' = None /\ wres' = FALSE /\ wprompt' = None
    /\ UNCHANGED handshake

\* a worker step that only moves on
WGoto(l) ==
    /\ wpc' = l
    /\ UNCHANGED <<alive, wmeta, wprompt, wbuf, wexit, wres, sig, fifo, handshake, exitcode>>

\* TaskPaths::update_metadata, first half: read_metadata; a missing file is an
\* error that the caller propagates, ending the worker.
WUpdateRead(from, to) ==
    /\ wpc = from
    /\ IF json = NoMeta
       THEN Die("err")
       ELSE /\ wpc' = to /\ wmeta' = json
            /\ UNCHANGED <<alive, wprompt, wbuf, wexit, wres, sig, fifo, handshake, exitcode>>
    /\ UNCHANGED <<fsVars, ctlVars, obsVars>>

\* TaskPaths::update_metadata, second half: write_metadata of the mutated
\* record (ensure_parent recreates a missing task directory).
WUpdateWrite(from, to, m) ==
    /\ wpc = from
    /\ json' = m /\ dir' = TRUE
    /\ wpc' = to /\ wmeta' = NoMeta
    /\ UNCHANGED <<alive, wprompt, wbuf, wexit, wres, sig, fifo, handshake, exitcode>>
    /\ UNCHANGED <<pidf, pipe, log, result, archive, today, ctlVars, obsVars>>

\* an assistant output line: buffered in memory (Vec before the session
\* exists, BufWriter afterwards)
W_Line ==
    /\ alive /\ wpc \in {"assist0", "turn"}
    /\ log + wbuf < MaxLog
    /\ wbuf' = wbuf + 1
    /\ UNCHANGED <<alive, wpc, wmeta, wprompt, wexit, wres, sig, fifo, handshake, exitcode>>
    /\ UNCHANGED <<fsVars, ctlVars, obsVars>>

\* handle_stdout_line sees thread.started: initialize_session begins
W_ThreadStarted ==
    /\ alive /\ wpc = "assist0"
    /\ WGoto("init_dir")
    /\ UNCHANGED <<fsVars, ctlVars, obsVars>>

\* handle_stdout_line sees thread.started with a thread id that is empty or
\* blank: initialize_session runs on the store path of that id, which is not
\* the directory of any task, and the handshake line it prints is blank
W_ThreadStartedNoId ==
    /\ alive /\ wpc = "assist0"
    /\ WGoto("noid")
    /\ UNCHANGED <<fsVars, ctlVars, obsVars>>

\* the first invocation cannot be spawned or ends without a thread id:
\* run_invocation returns Err and the process exits
W_NoThread ==
    /\ alive /\ wpc = "assist0"
    /\ Die("err")
    /\ UNCHANGED <<fsVars, ctlVars, obsVars>>

\* initialize_session: paths.ensure_directory()
W_InitDir ==
    /\ alive /\ wpc = "init_dir"
    /\ dir' = TRUE
    /\ WGoto("init_pid")
    /\ UNCHANGED <<json, pidf, pipe, log, result, archive, today, ctlVars, obsVars>>

\* initialize_session: paths.write_pid(pid)
W_InitPid ==
    /\ alive /\ wpc = "init_pid"
    /\ IF dir
       THEN pidf' = WPid /\ WGoto("init_meta")
       ELSE pidf' = pidf /\ Die("err")
    /\ UNCHANGED <<dir, json, pipe, log, result, archive, today, ctlVars, obsVars>>

\* initialize_session: store.save_metadata(RUNNING, initial and last prompt)
W_InitMeta ==
    /\ alive /\ wpc = "init_meta"
    /\ json' = NewMetadata(RUNNING, wprompt) /\ dir' = TRUE
    /\ WGoto("init_log")
    /\ UNCHANGED <<pidf, pipe, log, result, archive, today, ctlVars, obsVars>>

\* initialize_session: open task.log for append, write the buffered lines, flush
W_InitLog ==
    /\ alive /\ wpc = "init_log"
    /\ IF dir
       THEN /\ log' = log + wbuf /\ wbuf' = 0 /\ wpc' = "init_pipe"
            /\ UNCHANGED <<alive, wmeta, wprompt, wexit, wres, sig, fifo, handshake, exitcode>>
       ELSE log' = log /\ Die("err")
    /\ UNCHANGED <<dir, json, pidf, pipe, result, archive, today, ctlVars, obsVars>>

\* a worker that publishes the handshake without having created the FIFO
W_InitPipeSkipped ==
    /\ alive /\ wpc = "init_pipe"
    /\ pipe' = pipe /\ WGoto("init_hs")
    /\ UNCHANGED <<dir, json, pidf, log, result, archive, today, ctlVars, obsVars>>

\* initialize_session: create_pipe and PromptReader::new (opened read-write)
W_InitPipe ==
    /\ alive /\ wpc = "init_pipe"
    /\ IF dir
       THEN pipe' = TRUE /\ WGoto("init_hs")
       ELSE pipe' = pipe /\ Die("err")
    /\ UNCHANGED <<dir, json, pidf, log, result, archive, today, ctlVars, obsVars>>

\* initialize_session: println!(thread_id), the handshake line
W_Handshake ==
    /\ alive /\ wpc = "init_hs"
    /\ handshake' = TRUE /\ wpc' = "turn"
    /\ UNCHANGED <<alive, wmeta, wprompt, wbuf, wexit, wres, sig, fifo, exitcode>>
    /\ UNCHANGED <<fsVars, ctlVars, obsVars>>

\* run_invocation: the assistant's streams close and it is waited for; the
\* log is flushed and the exit state computed from the exit status
W_TurnEnd ==
    /\ alive /\ wpc = "turn"
    /\ \E ok \in BOOLEAN, res \in BOOLEAN :
        /\ wexit' = (IF ok THEN STOPPED ELSE DIED)
        /\ wres' = res
    /\ log' = (IF dir THEN log + wbuf ELSE log) /\ wbuf' = 0
    /\ wpc' = "end_read"
    /\ UNCHANGED <<alive, wmeta, wprompt, sig, fifo, handshake, exitcode>>
    /\ UNCHANGED <<dir, json, pidf, pipe, result, archive, today, ctlVars, obsVars>>

\* run_invocation: update_metadata(set_state(exit_state), last_prompt)
W_EndRead ==
    /\ alive
    /\ WUpdateRead("end_read", "end_write")

W_EndWrite ==
    /\ alive
    /\ WUpdateWrite("end_write", IF wres THEN "res_file" ELSE "end_ret",
                    [set_state(wmeta, wexit) EXCEPT !.last_prompt = wprompt])

\* run_invocation: fs::write(task.result) when the assistant left a message
W_ResFile ==
    /\ alive /\ wpc = "res_file"
    /\ IF dir
       THEN result' = wprompt /\ WGoto("res_read")
       ELSE result' = result /\ Die("err")
    /\ UNCHANGED <<dir, json, pidf, pipe, log, archive, today, ctlVars, obsVars>>

\* run_invocation: update_metadata(last_result)
W_ResRead ==
    /\ alive
    /\ WUpdateRead("res_read", "res_write")

W_ResWrite ==
    /\ alive
    /\ WUpdateWrite("res_write", "end_ret", [wmeta EXCEPT !.last_result = wprompt])

\* run_invocation returns: Err when the exit state is DIED (the process then
\* exits with an error, leaving task.pid and task.pipe behind), Ok otherwise
W_EndReturn ==
    /\ alive /\ wpc = "end_ret"
    /\ IF wexit = DIED
       THEN Die("err")
       ELSE /\ wpc' = "next" /\ wexit' = None /\ wres' = FALSE /\ wprompt' = None
            /\ UNCHANGED <<alive, wmeta, wbuf, sig, fifo, handshake, exitcode>>
    /\ UNCHANGED <<fsVars, ctlVars, obsVars>>

\* run_invocation(initial): command.spawn() of the first assistant process
W_Boot ==
    /\ alive /\ wpc = "boot"
    /\ \/ /\ wpc' = "assist0" /\ turns' = Append(turns, wprompt)
          /\ UNCHANGED <<alive, wmeta, wprompt, wbuf, wexit, wres, sig, fifo, handshake, exitcode>>
       \/ Die("err") /\ UNCHANGED turns
    /\ UNCHANGED <<fsVars, ctlVars, respawns, spawned, sentLog, batchVars>>

\* a reader that hands out the newest queued line instead of the oldest
W_NextPromptNewest ==
    /\ alive /\ wpc = "next" /\ fifo # <<>>
    /\ fifo' = SubSeq(fifo, 1, Len(fifo) - 1)
    /\ IF fifo[Len(fifo)] = Blank THEN wpc' = "next" /\ wprompt' = wprompt
       ELSE IF fifo[Len(fifo)] = Quit THEN wpc' = "sd_read" /\ wprompt' = wprompt
       ELSE wpc' = "inv_read" /\ wprompt' = fifo[Len(fifo)]
    /\ UNCHANGED <<alive, wmeta, wbuf, wexit, wres, sig, handshake, exitcode>>
    /\ UNCHANGED <<fsVars, ctlVars, obsVars>>

\* Worker::run loop: PromptReader::next_prompt returns the next FIFO line;
\* blank lines are skipped, /quit leaves the loop, anything else is a prompt
W_NextPrompt ==
    /\ alive /\ wpc = "next" /\ fifo # <<>>
    /\ fifo' = Tail(fifo)
    /\ IF Head(fifo) = Blank THEN wpc' = "next" /\ wprompt' = wprompt
       ELSE IF Head(fifo) = Quit THEN wpc' = "sd_read" /\ wprompt' = wprompt
       ELSE wpc' = "inv_read" /\ wprompt' = Head(fifo)
    /\ UNCHANGED <<alive, wmeta, wbuf, wexit, wres, sig, handshake, exitcode>>
    /\ UNCHANGED <<fsVars, ctlVars, obsVars>>

\* run_invocation(resume): update_metadata(set_state(RUNNING), last_prompt)
W_InvRead ==
    /\ alive
    /\ WUpdateRead("inv_read", "inv_write")

W_InvWrite ==
    /\ alive
    /\ WUpdateWrite("inv_write", "inv_spawn",
                    [set_state(wmeta, RUNNING) EXCEPT !.last_prompt = wprompt])

\* run_invocation(resume): command.spawn() of `codex exec resume`
W_InvSpawn ==
    /\ alive /\ wpc = "inv_spawn"
    /\ \/ /\ wpc' = "turn" /\ turns' = Append(turns, wprompt)
          /\ UNCHANGED <<alive, wmeta, wprompt, wbuf, wexit, wres, sig, fifo, handshake, exitcode>>
       \/ Die("err") /\ UNCHANGED turns
    /\ UNCHANGED <<fsVars, ctlVars, respawns, spawned, sentLog, batchVars>>

\* Worker::shutdown: update_metadata(set_state(STOPPED)); a failure is only
\* reported on stderr
W_SdRead ==
    /\ alive /\ wpc = "sd_read"
    /\ IF json = NoMeta
       THEN wpc' = "sd_pipe" /\ wmeta' = wmeta
       ELSE wpc' = "sd_write" /\ wmeta' = json
    /\ UNCHANGED <<alive, wprompt, wbuf, wexit, wres, sig, fifo, handshake, exitcode>>
    /\ UNCHANGED <<fsVars, ctlVars, obsVars>>

W_SdWrite ==
    /\ alive
    /\ WUpdateWrite("sd_write", "sd_pipe", set_state(wmeta, STOPPED))

\* Worker::shutdown: remove_pipe (the open descriptor stays usable)
W_SdPipe ==
    /\ alive /\ wpc = "sd_pipe"
    /\ pipe' = FALSE
    /\ WGoto("sd_pid")
    /\ UNCHANGED <<dir, json, pidf, log, result, archive, today, ctlVars, obsVars>>

\* Worker::shutdown: remove_pid
W_SdPid ==
    /\ alive /\ wpc = "sd_pid"
    /\ pidf' = None
    /\ WGoto("sd_exit")
    /\ UNCHANGED <<dir, json, pipe, log, result, archive, today, ctlVars, obsVars>>

\* run_worker returns Ok and the process exits
W_SdExit ==
    /\ alive /\ wpc = "sd_exit"
    /\ Die("ok")
    /\ UNCHANGED <<fsVars, ctlVars, obsVars>>

\* ------------------------------------------------------------- environment
\* the worker is killed from outside (SIGKILL, OOM killer, machine reset)
Crash ==
    /\ alive
    /\ Die("killed")
    /\ UNCHANGED <<fsVars, ctlVars, obsVars>>

\* a signal sent by send_signal reaches the worker; child.rs installs no
\* handler, so SIGTERM as well as SIGKILL ends the process at once
DeliverSignal ==
    /\ alive /\ sig # None
    /\ Die("killed")
    /\ UNCHANGED <<fsVars, ctlVars, obsVars>>

\* a process launched by send_prompt comes to its end
RespawnExit ==
    /\ spawned > 0
    /\ spawned' = spawned - 1
    /\ UNCHANGED <<fsVars, wkVars, ctlVars, respawns, sentLog, turns, batchVars>>

\* UTC midnight passes
ClockTick ==
    /\ today < MaxDay
    /\ today' = today + 1
    /\ UNCHANGED <<dir, json, pidf, pipe, log, result, archive, wkVars, ctlVars, obsVars>>

\* steps of the worker up to waiting for a prompt
WorkerCore ==
    \/ W_Boot \/ W_ThreadStarted \/ W_ThreadStartedNoId \/ W_NoThread
    \/ W_InitDir \/ W_InitPid \/ W_InitMeta \/ W_InitLog \/ W_InitPipe \/ W_Handshake
    \/ W_TurnEnd \/ W_EndRead \/ W_EndWrite \/ W_ResFile \/ W_ResRead \/ W_ResWrite
    \/ W_EndReturn

\* the assistant's output reaching the log
WorkerOutput == W_Line

\* steps of the worker driven by lines arriving on the FIFO
WorkerPrompt ==
    \/ W_NextPrompt \/ W_InvRead \/ W_InvWrite \/ W_InvSpawn
    \/ W_SdRead \/ W_SdWrite \/ W_SdPipe \/ W_SdPid \/ W_SdExit

Env == Crash \/ DeliverSignal \/ ClockTick

\* ================================================= control-process plumbing
\* an operation may begin when its process is idle
CanBegin(c) == pc[c] = "idle"

Begin(c, l) ==
    /\ pc' = [pc EXCEPT ![c] = l]
    /\ outcome' = NoOutcome

Goto(c, l) == pc' = [pc EXCEPT ![c] = l]

\* the operation returns: its locals go out of scope
Return(c, out) ==
    /\ pc' = [pc EXCEPT ![c] = "idle"]
    /\ outcome' = out
    /\ lmeta' = [lmeta EXCEPT ![c] = NoMeta]
    /\ lpid' = [lpid EXCEPT ![c] = None]
    /\ lder' = [lder EXCEPT ![c] = None]
    /\ larg' = [larg EXCEPT ![c] = None]
    /\ lnow' = [lnow EXCEPT ![c] = 1]
    /\ lsnap' = [lsnap EXCEPT ![c] = NoSnap]

Out(kind) == [kind |-> kind]

\* the outcome of a stop, with the pid the call had read from task.pid
StopOut(c, kind) == [kind |-> kind, pid |-> lpid[c]]

\* ------------------------------------------- start_task / handle_start
\* spawn_worker: the detached worker process exists from here on
StartTask(c) ==
    /\ CanBegin(c) /\ wpc = "unborn"
    /\ Begin(c, "start_recv")
    /\ alive' = TRUE /\ wpc' = "boot" /\ wprompt' = InitialPrompt
    /\ UNCHANGED <<wmeta, wbuf, wexit, wres, sig, fifo, handshake, exitcode>>
    /\ UNCHANGED <<fsVars, lmeta, lpid, lder, larg, lnow, lsnap, obsVars>>

\* receive_thread_id: the handshake line arrived
StartRecvOk(c) ==
    /\ pc[c] = "start_recv" /\ handshake
    /\ Return(c, Out("Started"))
    /\ UNCHANGED <<fsVars, wkVars, obsVars>>

\* receive_thread_id: end of file on the worker's stdout
StartRecvEof(c) ==
    /\ pc[c] = "start_recv" /\ ~handshake /\ ~alive
    /\ Return(c, Out("StartFailed"))
    /\ UNCHANGED <<fsVars, wkVars, obsVars>>

\* receive_thread_id: the line that arrived is empty after trim();
\* child.kill() and child.wait()
StartRecvEmpty(c) ==
    /\ pc[c] = "start_recv" /\ alive /\ wpc = "noid"
    /\ Die("killed")
    /\ Return(c, Out("StartEmptyId"))
    /\ UNCHANGED <<fsVars, obsVars>>

\* a start that gives up after 60 s and leaves the worker running
StartRecvTimeoutNoKill(c) ==
    /\ pc[c] = "start_recv" /\ ~handshake /\ alive
    /\ Return(c, Out("StartTimedOut"))
    /\ UNCHANGED <<fsVars, wkVars, obsVars>>

\* receive_thread_id: 60 s without a line; child.kill() and child.wait()
StartRecvTimeout(c) ==
    /\ pc[c] = "start_recv" /\ ~handshake /\ alive
    /\ Die("killed")
    /\ Return(c, Out("StartTimedOut"))
    /\ UNCHANGED <<fsVars, obsVars>>

Start(c) ==
    \/ StartTask(c) \/ StartRecvOk(c) \/ StartRecvEof(c) \/ StartRecvEmpty(c)
    \/ StartRecvTimeout(c)

\* ------------------------------------------------ get_status / status
\* cli selects the command-line generation (src/status.rs), whose derivation
\* and archive lookup differ from the service's
Derive(cli, stored, pid, running) ==
    IF cli THEN cli_derive_active_state(stored, pid, running)
    ELSE derive_active_state(stored, pid, running)

StatusBegin(c) ==
    /\ CanBegin(c)
    /\ Begin(c, "gs_meta")
    /\ UNCHANGED <<fsVars, wkVars, lmeta, lpid, lder, larg, lnow, lsnap, obsVars>>

\* paths.read_metadata(); NotFound falls back to the archive lookup, which in
\* src/status.rs searches for a file <id>.json that archive_task never creates
StatusMeta(c, cli) ==
    /\ pc[c] = "gs_meta"
    /\ IF json # NoMeta
       THEN /\ lmeta' = [lmeta EXCEPT ![c] = json]
            /\ Goto(c, "gs_pid")
            /\ UNCHANGED <<lpid, lder, larg, lnow, lsnap, outcome>>
       ELSE IF ArchivedDays # {} /\ ~cli
            THEN Return(c, [kind |-> "Status", active |-> FALSE, stored |-> ARCHIVED,
                            pid |-> None, running |-> FALSE, state |-> ARCHIVED])
            ELSE Return(c, Out("NotFound"))
    /\ UNCHANGED <<fsVars, wkVars, obsVars>>

\* paths.read_pid()
StatusPid(c) ==
    /\ pc[c] = "gs_pid"
    /\ lpid' = [lpid EXCEPT ![c] = pidf]
    /\ Goto(c, "gs_probe")
    /\ UNCHANGED <<fsVars, wkVars, lmeta, lder, larg, lnow, lsnap, outcome, obsVars>>

\* derive_active_state(&metadata.state, pid): the liveness probe and the result
StatusDerive(c, cli) ==
    /\ pc[c] = "gs_probe"
    /\ Return(c, [kind |-> "Status", active |-> TRUE, stored |-> lmeta[c].state,
                  pid |-> lpid[c], running |-> is_process_running(lpid[c]),
                  state |-> Derive(cli, lmeta[c].state, lpid[c],
                                   is_process_running(lpid[c]))])
    /\ UNCHANGED <<fsVars, wkVars, obsVars>>

Status(c, cli) ==
    \/ StatusBegin(c) \/ StatusMeta(c, cli) \/ StatusPid(c) \/ StatusDerive(c, cli)

\* ------------------------------------------- send_prompt (tasks/service.rs)
SendingProcs == {c \in Procs : pc[c] \in {"sp_load", "sp_pid", "sp_probe", "sp_rmpid", "sp_spawn"}}

SendPromptBegin(c) ==
    /\ CanBegin(c)
    /\ respawns + Cardinality(SendingProcs) < MaxRespawn
    /\ \E p \in Prompts \cup {Blank} : larg' = [larg EXCEPT ![c] = p]
    /\ Begin(c, "sp_load")
    /\ UNCHANGED <<fsVars, wkVars, lmeta, lpid, lder, lnow, lsnap, obsVars>>

\* a send_prompt that does not look the task up before launching a worker
SendPromptLoadNoLookup(c) ==
    /\ pc[c] = "sp_load"
    /\ IF larg[c] = Blank THEN Return(c, Out("EmptyPrompt"))
       ELSE /\ lmeta' = [lmeta EXCEPT ![c] = json]
            /\ Goto(c, "sp_pid")
            /\ UNCHANGED <<lpid, lder, larg, lnow, lsnap, outcome>>
    /\ UNCHANGED <<fsVars, wkVars, obsVars>>

\* the empty-prompt check, store.load_metadata with its archive fallback, and
\* the match on the stored state
SendPromptLoad(c) ==
    /\ pc[c] = "sp_load"
    /\ IF larg[c] = Blank THEN Return(c, Out("EmptyPrompt"))
       ELSE IF json = NoMeta
       THEN (IF ArchivedDays # {} THEN Return(c, Out("RefusedArchived"))
             ELSE Return(c, Out("NotFound")))
       ELSE IF json.state = ARCHIVED THEN Return(c, Out("RefusedArchived"))
       ELSE IF json.state = DIED THEN Return(c, Out("RefusedDied"))
       ELSE /\ lmeta' = [lmeta EXCEPT ![c] = json]
            /\ Goto(c, "sp_pid")
            /\ UNCHANGED <<lpid, lder, larg, lnow, lsnap, outcome>>
    /\ UNCHANGED <<fsVars, wkVars, obsVars>>

\* paths.read_pid()
SendPromptPid(c) ==
    /\ pc[c] = "sp_pid"
    /\ lpid' = [lpid EXCEPT ![c] = pidf]
    /\ Goto(c, IF pidf = None THEN "sp_spawn" ELSE "sp_probe")
    /\ UNCHANGED <<fsVars, wkVars, lmeta, lder, larg, lnow, lsnap, outcome, obsVars>>

\* is_process_running(pid): a live worker refuses the prompt
SendPromptProbe(c) ==
    /\ pc[c] = "sp_probe"
    /\ IF is_process_running(lpid[c])
       THEN Return(c, Out("RefusedRunning"))
       ELSE /\ Goto(c, "sp_rmpid")
            /\ UNCHANGED <<lmeta, lpid, lder, larg, lnow, lsnap, outcome>>
    /\ UNCHANGED <<fsVars, wkVars, obsVars>>

\* let _ = paths.remove_pid()
SendPromptRemovePid(c) ==
    /\ pc[c] = "sp_rmpid"
    /\ pidf' = None
    /\ Goto(c, "sp_spawn")
    /\ UNCHANGED <<dir, json, pipe, log, result, archive, today, wkVars>>
    /\ UNCHANGED <<lmeta, lpid, lder, larg, lnow, lsnap, outcome, obsVars>>

\* spawn_worker(request); Ok(()).  The outcome keeps what the call had read.
SendPromptSpawn(c) ==
    /\ pc[c] = "sp_spawn"
    /\ respawns' = respawns + 1 /\ spawned' = spawned + 1
    /\ Return(c, [kind |-> "Sent", prompt |-> larg[c], stored |-> lmeta[c].state,
                  pid |-> lpid[c], running |-> FALSE])
    /\ UNCHANGED <<fsVars, wkVars, sentLog, turns, batchVars>>

SendPrompt(c) ==
    \/ SendPromptBegin(c) \/ SendPromptLoad(c) \/ SendPromptPid(c)
    \/ SendPromptProbe(c) \/ SendPromptRemovePid(c) \/ SendPromptSpawn(c)

\* --------------------------------------------- stop_task (tasks/service.rs)
\* a signal that send_signal posts to a process that no longer exists is lost
send_signal_lost(signal) == sig' = sig

\* send_signal: kill(pid, signal); ESRCH counts as success
send_signal(signal) == sig' = (IF alive THEN signal ELSE sig)

StopBegin(c) ==
    /\ CanBegin(c)
    /\ Begin(c, "st_pid")
    /\ UNCHANGED <<fsVars, wkVars, lmeta, lpid, lder, larg, lnow, lsnap, obsVars>>

\* stop_task_paths: paths.read_pid(); None returns AlreadyStopped
StopPid(c) ==
    /\ pc[c] = "st_pid"
    /\ IF pidf = None
       THEN Return(c, StopOut(c, "AlreadyStopped"))
       ELSE /\ lpid' = [lpid EXCEPT ![c] = pidf]
            /\ Goto(c, "st_probe")
            /\ UNCHANGED <<lmeta, lder, larg, lnow, lsnap, outcome>>
    /\ UNCHANGED <<fsVars, wkVars, obsVars>>

\* stop_task_paths: is_process_running(pid)
StopProbe(c) ==
    /\ pc[c] = "st_probe"
    /\ Goto(c, IF is_process_running(lpid[c]) THEN "st_term" ELSE "st_stale")
    /\ UNCHANGED <<fsVars, wkVars, lmeta, lpid, lder, larg, lnow, lsnap, outcome, obsVars>>

\* a stop that also rewrote the metadata of a task whose worker is already gone
StopStaleMarks(c) ==
    /\ pc[c] = "st_stale"
    /\ pidf' = None
    /\ json' = (IF json = NoMeta THEN json ELSE set_state(json, STOPPED))
    /\ Return(c, StopOut(c, "AlreadyStopped"))
    /\ UNCHANGED <<dir, pipe, log, result, archive, today, wkVars, obsVars>>

\* stop_task_paths: the recorded process is gone; remove the stale pid file
StopStale(c) ==
    /\ pc[c] = "st_stale"
    /\ pidf' = None
    /\ Return(c, StopOut(c, "AlreadyStopped"))
    /\ UNCHANGED <<dir, json, pipe, log, result, archive, today, wkVars, obsVars>>

\* stop_task_paths: send_signal(pid, SIGTERM)
StopTerm(c) ==
    /\ pc[c] = "st_term"
    /\ send_signal("TERM")
    /\ Goto(c, "st_wait")
    /\ UNCHANGED <<alive, wpc, wmeta, wprompt, wbuf, wexit, wres, fifo, handshake, exitcode>>
    /\ UNCHANGED <<fsVars, lmeta, lpid, lder, larg, lnow, lsnap, outcome, obsVars>>

\* wait_for_worker_shutdown: a poll finds the process gone (reaped or ESRCH)
StopWaitGone(c) ==
    /\ pc[c] = "st_wait" /\ ~is_process_running(lpid[c])
    /\ Goto(c, "st_rmpid")
    /\ UNCHANGED <<fsVars, wkVars, lmeta, lpid, lder, larg, lnow, lsnap, outcome, obsVars>>

\* wait_for_worker_shutdown: the deadline passes with the process still there;
\* send_signal(pid, SIGKILL) and one more poll interval of sleep
StopDeadline(c) ==
    /\ pc[c] = "st_wait" /\ is_process_running(lpid[c])
    /\ send_signal("KILL")
    /\ Goto(c, "st_killed")
    /\ UNCHANGED <<alive, wpc, wmeta, wprompt, wbuf, wexit, wres, fifo, handshake, exitcode>>
    /\ UNCHANGED <<fsVars, lmeta, lpid, lder, larg, lnow, lsnap, outcome, obsVars>>

\* wait_for_worker_shutdown: the probe after SIGKILL; still running is the
\* "timed out waiting for worker" error
StopAfterKill(c) ==
    /\ pc[c] = "st_killed"
    /\ IF is_process_running(lpid[c])
       THEN Return(c, Out("StopTimedOut"))
       ELSE /\ Goto(c, "st_rmpid")
            /\ UNCHANGED <<lmeta, lpid, lder, larg, lnow, lsnap, outcome>>
    /\ UNCHANGED <<fsVars, wkVars, obsVars>>

\* stop_task_paths: let _ = paths.remove_pid()
StopRemovePid(c) ==
    /\ pc[c] = "st_rmpid"
    /\ pidf' = None
    /\ Goto(c, "st_mread")
    /\ UNCHANGED <<dir, json, pipe, log, result, archive, today, wkVars>>
    /\ UNCHANGED <<lmeta, lpid, lder, larg, lnow, lsnap, outcome, obsVars>>

\* mark_task_state: update_metadata reads task.json; NotFound is tolerated
StopMarkRead(c) ==
    /\ pc[c] = "st_mread"
    /\ IF json = NoMeta
       THEN Return(c, StopOut(c, "Stopped"))
       ELSE /\ lmeta' = [lmeta EXCEPT ![c] = json]
            /\ Goto(c, "st_mwrite")
            /\ UNCHANGED <<lpid, lder, larg, lnow, lsnap, outcome>>
    /\ UNCHANGED <<fsVars, wkVars, obsVars>>

\* mark_task_state: update_metadata writes the record with state STOPPED
StopMarkWrite(c) ==
    /\ pc[c] = "st_mwrite"
    /\ json' = set_state(lmeta[c], STOPPED) /\ dir' = TRUE
    /\ Return(c, StopOut(c, "Stopped"))
    /\ UNCHANGED <<pidf, pipe, log, result, archive, today, wkVars, obsVars>>

\* the steps of a stop_task call that has begun
StopStep(c) ==
    \/ StopPid(c) \/ StopProbe(c) \/ StopStale(c) \/ StopTerm(c)
    \/ StopWaitGone(c) \/ StopDeadline(c) \/ StopAfterKill(c) \/ StopRemovePid(c)
    \/ StopMarkRead(c) \/ StopMarkWrite(c)

StopTask(c) == StopBegin(c) \/ StopStep(c)

\* ------------------------- archive_task_inner (tasks/service.rs), and with
\* cli the archive_task of src/main.rs and src/commands/archive.rs, which
\* derive the state with src/status.rs
ArchiveBegin(c) ==
    /\ CanBegin(c)
    /\ Begin(c, "ar_find")
    /\ UNCHANGED <<fsVars, wkVars, lmeta, lpid, lder, larg, lnow, lsnap, obsVars>>

\* an archive_task that does not look under archive/ first
ArchiveFindBlind(c) ==
    /\ pc[c] = "ar_find"
    /\ Goto(c, "ar_meta")
    /\ UNCHANGED <<lmeta, lpid, lder, larg, lnow, lsnap, outcome>>
    /\ UNCHANGED <<fsVars, wkVars, obsVars>>

\* store.find_archived_task(task_id)?: an archived copy ends the call
ArchiveFind(c) ==
    /\ pc[c] = "ar_find"
    /\ IF ArchivedDays # {}
       THEN Return(c, IF archive[find_archived_task].json = NoMeta
                      THEN Out("Error") ELSE Out("AlreadyArchived"))
       ELSE /\ Goto(c, "ar_meta")
            /\ UNCHANGED <<lmeta, lpid, lder, larg, lnow, lsnap, outcome>>
    /\ UNCHANGED <<fsVars, wkVars, obsVars>>

\* paths.read_metadata(); NotFound is "task was not found"
ArchiveMeta(c) ==
    /\ pc[c] = "ar_meta"
    /\ IF json = NoMeta
       THEN Return(c, Out("NotFound"))
       ELSE /\ lmeta' = [lmeta EXCEPT ![c] = json]
            /\ Goto(c, "ar_pid")
            /\ UNCHANGED <<lpid, lder, larg, lnow, lsnap, outcome>>
    /\ UNCHANGED <<fsVars, wkVars, obsVars>>

\* paths.read_pid()
ArchivePid(c) ==
    /\ pc[c] = "ar_pid"
    /\ lpid' = [lpid EXCEPT ![c] = pidf]
    /\ Goto(c, "ar_derive")
    /\ UNCHANGED <<fsVars, wkVars, lmeta, lder, larg, lnow, lsnap, outcome, obsVars>>

\* derive_active_state(&metadata.state, pid) and the comparison with the
\* stored state
ArchiveDerive(c, cli) ==
    /\ pc[c] = "ar_derive"
    /\ LET derived == Derive(cli, lmeta[c].state, lpid[c], is_process_running(lpid[c]))
       IN /\ lder' = [lder EXCEPT ![c] = derived]
          /\ lmeta' = [lmeta EXCEPT ![c] = set_state(lmeta[c], derived)]
          /\ Goto(c, IF lmeta[c].state # derived THEN "ar_fix" ELSE "ar_check")
    /\ UNCHANGED <<fsVars, wkVars, lpid, larg, lnow, lsnap, outcome, obsVars>>

\* paths.write_metadata(&metadata) with the derived state
ArchiveFix(c) ==
    /\ pc[c] = "ar_fix"
    /\ json' = lmeta[c] /\ dir' = TRUE
    /\ Goto(c, "ar_check")
    /\ UNCHANGED <<pidf, pipe, log, result, archive, today, wkVars>>
    /\ UNCHANGED <<lmeta, lpid, lder, larg, lnow, lsnap, outcome, obsVars>>

\* an archive_task without the RUNNING refusals
ArchiveCheckNone(c) ==
    /\ pc[c] = "ar_check"
    /\ lsnap' = [lsnap EXCEPT ![c] = [json |-> json, pidf |-> pidf, pipe |-> pipe,
                                      log |-> log, result |-> result]]
    /\ Goto(c, "ar_rmpid")
    /\ UNCHANGED <<lmeta, lpid, lder, larg, lnow, outcome>>
    /\ UNCHANGED <<fsVars, wkVars, obsVars>>

\* the two RUNNING refusals; past them the call starts changing the store, and
\* lsnap keeps the task's files as they are at that point
ArchiveCheck(c) ==
    /\ pc[c] = "ar_check"
    /\ IF lder[c] = RUNNING \/ (lpid[c] # None /\ is_process_running(lpid[c]))
       THEN Return(c, Out("RefusedRunning"))
       ELSE /\ lsnap' = [lsnap EXCEPT ![c] = [json |-> json, pidf |-> pidf, pipe |-> pipe,
                                              log |-> log, result |-> result]]
            /\ Goto(c, "ar_rmpid")
            /\ UNCHANGED <<lmeta, lpid, lder, larg, lnow, outcome>>
    /\ UNCHANGED <<fsVars, wkVars, obsVars>>

\* paths.remove_pid()?
ArchiveRemovePid(c) ==
    /\ pc[c] = "ar_rmpid"
    /\ pidf' = None
    /\ Goto(c, "ar_rmpipe")
    /\ UNCHANGED <<dir, json, pipe, log, result, archive, today, wkVars>>
    /\ UNCHANGED <<lmeta, lpid, lder, larg, lnow, lsnap, outcome, obsVars>>

\* an archive_task that forgets paths.remove_pipe()
ArchiveKeepPipe(c) ==
    /\ pc[c] = "ar_rmpipe"
    /\ Goto(c, "ar_mark")
    /\ UNCHANGED <<fsVars, wkVars>>
    /\ UNCHANGED <<lmeta, lpid, lder, larg, lnow, lsnap, outcome, obsVars>>

\* paths.remove_pipe()?
ArchiveRemovePipe(c) ==
    /\ pc[c] = "ar_rmpipe"
    /\ pipe' = FALSE
    /\ Goto(c, "ar_mark")
    /\ UNCHANGED <<dir, json, pidf, log, result, archive, today, wkVars>>
    /\ UNCHANGED <<lmeta, lpid, lder, larg, lnow, lsnap, outcome, obsVars>>

\* now = Utc::now(); metadata.state = Archived; paths.write_metadata(&metadata)?
ArchiveMark(c) ==
    /\ pc[c] = "ar_mark"
    /\ lnow' = [lnow EXCEPT ![c] = today]
    /\ json' = set_state(lmeta[c], ARCHIVED) /\ dir' = TRUE
    /\ Goto(c, "ar_bucket")
    /\ UNCHANGED <<pidf, pipe, log, result, archive, today, wkVars>>
    /\ UNCHANGED <<lmeta, lpid, lder, larg, lsnap, outcome, obsVars>>

\* store.ensure_archive_bucket(now)?: create_dir_all may fail (permissions,
\* full disk, a file in the way)
ArchiveBucket(c) ==
    /\ pc[c] = "ar_bucket"
    /\ \/ /\ Goto(c, "ar_dest")
          /\ UNCHANGED <<lmeta, lpid, lder, larg, lnow, lsnap, outcome>>
       \/ Return(c, [kind |-> "BucketFailed", before |-> lsnap[c]])
    /\ UNCHANGED <<fsVars, wkVars, obsVars>>

\* destination.exists(): "archive destination already exists"
ArchiveDest(c) ==
    /\ pc[c] = "ar_dest"
    /\ IF archive[lnow[c]].exists
       THEN Return(c, [kind |-> "DestinationExists", before |-> lsnap[c]])
       ELSE /\ Goto(c, "ar_rename")
            /\ UNCHANGED <<lmeta, lpid, lder, larg, lnow, lsnap, outcome>>
    /\ UNCHANGED <<fsVars, wkVars, obsVars>>

\* an archival that copied the directory into the bucket and left the original
ArchiveRenameCopy(c) ==
    /\ pc[c] = "ar_rename"
    /\ \/ /\ dir /\ ~archive[lnow[c]].exists
          /\ archive' = [archive EXCEPT ![lnow[c]] =
                            [exists |-> TRUE, json |-> json, pidf |-> pidf, pipe |-> pipe,
                             log |-> log, result |-> result]]
          /\ UNCHANGED <<dir, json, pidf, pipe, log, result>>
          /\ Return(c, [kind |-> "Archived", day |-> lnow[c], before |-> lsnap[c]])
       \/ /\ Return(c, [kind |-> "RenameFailed", before |-> lsnap[c]])
          /\ UNCHANGED <<dir, json, pidf, pipe, log, result, archive>>
    /\ UNCHANGED <<today, wkVars, obsVars>>

\* fs::rename(paths.directory(), &destination): moves the directory with
\* everything in it, or fails (source gone, destination not empty, I/O error)
ArchiveRename(c) ==
    /\ pc[c] = "ar_rename"
    /\ \/ /\ dir /\ ~archive[lnow[c]].exists
          /\ archive' = [archive EXCEPT ![lnow[c]] =
                            [exists |-> TRUE, json |-> json, pidf |-> pidf, pipe |-> pipe,
                             log |-> log, result |-> result]]
          /\ dir' = FALSE /\ json' = NoMeta /\ pidf' = None /\ pipe' = FALSE
          /\ log' = 0 /\ result' = None
          /\ Return(c, [kind |-> "Archived", day |-> lnow[c], before |-> lsnap[c]])
       \/ /\ Return(c, [kind |-> "RenameFailed", before |-> lsnap[c]])
          /\ UNCHANGED <<dir, json, pidf, pipe, log, result, archive>>
    /\ UNCHANGED <<today, wkVars, obsVars>>

ArchiveTask(c, cli) ==
    \/ ArchiveBegin(c) \/ ArchiveFind(c) \/ ArchiveMeta(c) \/ ArchivePid(c)
    \/ ArchiveDerive(c, cli) \/ ArchiveFix(c) \/ ArchiveCheck(c) \/ ArchiveRemovePid(c)
    \/ ArchiveRemovePipe(c) \/ ArchiveMark(c) \/ ArchiveBucket(c) \/ ArchiveDest(c)
    \/ ArchiveRename(c)

\* ===================================== command-line generation (src/main.rs)
Range(q) == {q[i] : i \in 1..Len(q)}

\* ------------------------------------------------------------- handle_send
\* payload = prompt.into_bytes() followed by '\n': what the reader of the FIFO,
\* which cuts its input at every newline, gets to see as lines
PayloadLines(p) == IF p = TwoLines THEN <<"p1", "p2">> ELSE <<p>>

\* each prompt text is sent at most once, so that a line identifies its send;
\* the two interchangeable prompts are used in the order p1, p2
HandleSendBegin(c) ==
    /\ CanBegin(c)
    /\ \E p \in Prompts \cup {Blank} :
        /\ p \notin Range(sentLog)
        /\ p = "p2" => "p1" \in Range(sentLog)
        /\ \A d \in Procs : larg[d] # p
        /\ larg' = [larg EXCEPT ![c] = p]
    /\ Begin(c, "hs_load")
    /\ UNCHANGED <<fsVars, wkVars, lmeta, lpid, lder, lnow, lsnap, obsVars>>

\* a send whose prompt is any text: one line, the text /quit, or two lines
HandleSendAnyText(c) ==
    /\ CanBegin(c)
    /\ \E p \in {"p1", Quit, TwoLines} :
        /\ p \notin Range(sentLog)
        /\ p = "p2" => "p1" \in Range(sentLog)
        /\ \A d \in Procs : larg[d] # p
        /\ larg' = [larg EXCEPT ![c] = p]
    /\ Begin(c, "hs_load")
    /\ UNCHANGED <<fsVars, wkVars, lmeta, lpid, lder, lnow, lsnap, obsVars>>

\* store.load_metadata with its archive fallback, and the match on the
\* stored state
HandleSendLoad(c) ==
    /\ pc[c] = "hs_load"
    /\ IF json = NoMeta
       THEN (IF ArchivedDays # {} THEN Return(c, Out("RefusedArchived"))
             ELSE Return(c, Out("NotFound")))
       ELSE IF json.state = ARCHIVED THEN Return(c, Out("RefusedArchived"))
       ELSE IF json.state = DIED THEN Return(c, Out("RefusedDied"))
       ELSE /\ Goto(c, "hs_uread")
            /\ UNCHANGED <<lmeta, lpid, lder, larg, lnow, lsnap, outcome>>
    /\ UNCHANGED <<fsVars, wkVars, obsVars>>

\* paths.update_metadata(last_prompt, set_state(RUNNING)): the read
HandleSendUpdRead(c) ==
    /\ pc[c] = "hs_uread"
    /\ IF json = NoMeta
       THEN Return(c, Out("Error"))
       ELSE /\ lmeta' = [lmeta EXCEPT ![c] = json]
            /\ Goto(c, "hs_uwrite")
            /\ UNCHANGED <<lpid, lder, larg, lnow, lsnap, outcome>>
    /\ UNCHANGED <<fsVars, wkVars, obsVars>>

\* paths.update_metadata(last_prompt, set_state(RUNNING)): the write
HandleSendUpdWrite(c) ==
    /\ pc[c] = "hs_uwrite"
    /\ json' = [set_state(lmeta[c], RUNNING) EXCEPT !.last_prompt = larg[c]]
    /\ dir' = TRUE
    /\ Goto(c, "hs_open")
    /\ UNCHANGED <<pidf, pipe, log, result, archive, today, wkVars>>
    /\ UNCHANGED <<lmeta, lpid, lder, larg, lnow, lsnap, outcome, obsVars>>

\* a send that opens task.pipe without noticing that nobody reads it
HandleSendOpenNoProbe(c) ==
    /\ pc[c] = "hs_open"
    /\ IF ~pipe THEN Return(c, Out("MissingPipe"))
       ELSE /\ Goto(c, "hs_write")
            /\ UNCHANGED <<lmeta, lpid, lder, larg, lnow, lsnap, outcome>>
    /\ UNCHANGED <<fsVars, wkVars, obsVars>>

\* open(task.pipe, write | O_NONBLOCK): NotFound is the missing-pipe error,
\* ENXIO (no reader) the worker-inactive error
HandleSendOpen(c) ==
    /\ pc[c] = "hs_open"
    /\ IF ~pipe THEN Return(c, Out("MissingPipe"))
       ELSE IF ~ReaderOpen THEN Return(c, Out("Inactive"))
       ELSE /\ Goto(c, "hs_write")
            /\ UNCHANGED <<lmeta, lpid, lder, larg, lnow, lsnap, outcome>>
    /\ UNCHANGED <<fsVars, wkVars, obsVars>>

\* pipe.write_all(prompt + "\n") and flush: EPIPE when the reader is gone,
\* otherwise the line is queued (a full FIFO blocks the writer)
HandleSendWrite(c) ==
    /\ pc[c] = "hs_write"
    /\ IF ~ReaderOpen
       THEN /\ Return(c, Out("Inactive"))
            /\ UNCHANGED <<fifo, sentLog>>
       ELSE /\ Len(fifo) + Len(PayloadLines(larg[c])) <= MaxFifo
            /\ fifo' = fifo \o PayloadLines(larg[c])
            /\ sentLog' = Append(sentLog, larg[c])
            /\ Return(c, [kind |-> "Sent", prompt |-> larg[c]])
    /\ UNCHANGED <<alive, wpc, wmeta, wprompt, wbuf, wexit, wres, sig, handshake, exitcode>>
    /\ UNCHANGED <<fsVars, respawns, spawned, turns, batchVars>>

HandleSend(c) ==
    \/ HandleSendBegin(c) \/ HandleSendLoad(c) \/ HandleSendUpdRead(c)
    \/ HandleSendUpdWrite(c) \/ HandleSendOpen(c) \/ HandleSendWrite(c)

\* --------------------------------------------------- stop_task (src/main.rs)
CliStopBegin(c) ==
    /\ CanBegin(c)
    /\ Begin(c, "cs_pid")
    /\ UNCHANGED <<fsVars, wkVars, lmeta, lpid, lder, larg, lnow, lsnap, obsVars>>

\* paths.read_pid(); None goes to cleanup_task_files and AlreadyStopped
CliStopPid(c) ==
    /\ pc[c] = "cs_pid"
    /\ lpid' = [lpid EXCEPT ![c] = pidf]
    /\ Goto(c, IF pidf = None THEN "cs_a_rmpid" ELSE "cs_probe")
    /\ UNCHANGED <<fsVars, wkVars, lmeta, lder, larg, lnow, lsnap, outcome, obsVars>>

\* is_process_running(pid)
CliStopProbe(c) ==
    /\ pc[c] = "cs_probe"
    /\ Goto(c, IF is_process_running(lpid[c]) THEN "cs_quit" ELSE "cs_a_rmpid")
    /\ UNCHANGED <<fsVars, wkVars, lmeta, lpid, lder, larg, lnow, lsnap, outcome, obsVars>>

\* send_quit_signal: a blocking write-only open of task.pipe (NotFound gives
\* Ok(false); without a reader the open does not return), then "/quit\n"
CliStopQuit(c) ==
    /\ pc[c] = "cs_quit"
    /\ IF ~pipe
       THEN Goto(c, "cs_a_rmpid") /\ UNCHANGED fifo
       ELSE /\ ReaderOpen /\ Len(fifo) < MaxFifo
            /\ fifo' = Append(fifo, Quit)
            /\ Goto(c, "cs_wait")
    /\ UNCHANGED <<alive, wpc, wmeta, wprompt, wbuf, wexit, wres, sig, handshake, exitcode>>
    /\ UNCHANGED <<fsVars, lmeta, lpid, lder, larg, lnow, lsnap, outcome, obsVars>>

\* wait_for_worker_shutdown(paths, pid): the loop ends when task.pid is gone
\* or the process is, and fails once the deadline has passed
CliStopWait(c) ==
    /\ pc[c] = "cs_wait"
    /\ \/ /\ pidf = None \/ ~is_process_running(lpid[c])
          /\ Goto(c, "cs_s_rmpid")
          /\ UNCHANGED <<lmeta, lpid, lder, larg, lnow, lsnap, outcome>>
       \/ Return(c, Out("StopTimedOut"))
    /\ UNCHANGED <<fsVars, wkVars, obsVars>>

\* cleanup_task_files: paths.remove_pid()?
CliCleanupPid(c) ==
    /\ pc[c] \in {"cs_a_rmpid", "cs_s_rmpid"}
    /\ pidf' = None
    /\ Goto(c, IF pc[c] = "cs_a_rmpid" THEN "cs_a_rmpipe" ELSE "cs_s_rmpipe")
    /\ UNCHANGED <<dir, json, pipe, log, result, archive, today, wkVars>>
    /\ UNCHANGED <<lmeta, lpid, lder, larg, lnow, lsnap, outcome, obsVars>>

\* cleanup_task_files: paths.remove_pipe()?; the not-running paths return
\* AlreadyStopped here
CliCleanupPipe(c) ==
    /\ pc[c] \in {"cs_a_rmpipe", "cs_s_rmpipe"}
    /\ pipe' = FALSE
    /\ IF pc[c] = "cs_a_rmpipe"
       THEN Return(c, StopOut(c, "AlreadyStopped"))
       ELSE /\ Goto(c, "cs_mread")
            /\ UNCHANGED <<lmeta, lpid, lder, larg, lnow, lsnap, outcome>>
    /\ UNCHANGED <<dir, json, pidf, log, result, archive, today, wkVars, obsVars>>

\* mark_task_state: update_metadata reads task.json; NotFound is tolerated
CliStopMarkRead(c) ==
    /\ pc[c] = "cs_mread"
    /\ IF json = NoMeta
       THEN Return(c, StopOut(c, "Stopped"))
       ELSE /\ lmeta' = [lmeta EXCEPT ![c] = json]
            /\ Goto(c, "cs_mwrite")
            /\ UNCHANGED <<lpid, lder, larg, lnow, lsnap, outcome>>
    /\ UNCHANGED <<fsVars, wkVars, obsVars>>

\* mark_task_state: update_metadata writes the record with state STOPPED
CliStopMarkWrite(c) ==
    /\ pc[c] = "cs_mwrite"
    /\ json' = set_state(lmeta[c], STOPPED) /\ dir' = TRUE
    /\ Return(c, StopOut(c, "Stopped"))
    /\ UNCHANGED <<pidf, pipe, log, result, archive, today, wkVars, obsVars>>

CliStopTask(c) ==
    \/ CliStopBegin(c) \/ CliStopPid(c) \/ CliStopProbe(c) \/ CliStopQuit(c)
    \/ CliStopWait(c) \/ CliCleanupPid(c) \/ CliCleanupPipe(c)
    \/ CliStopMarkRead(c) \/ CliStopMarkWrite(c)

\* ================================================================== specs
\* Control operations are synchronous and each invocation is a process of its
\* own.  Spec and SpecCli run one operation at a time (process c1); SpecConc
\* lets a second process stop or archive while c1 is in the middle of one.
ServiceOp(c) ==
    \/ Start(c) \/ Status(c, FALSE) \/ SendPrompt(c) \/ StopTask(c)
    \/ ArchiveTask(c, FALSE)

Next == WorkerCore \/ WorkerOutput \/ Env \/ RespawnExit \/ ServiceOp("c1")
Spec == Init /\ [][Next]_vars

NextConc ==
    \/ WorkerCore \/ Crash \/ DeliverSignal \/ RespawnExit
    \/ Start("c1") \/ SendPrompt("c1")
    \/ \E c \in Procs : StopTask(c) \/ ArchiveTask(c, FALSE)
SpecConc == Init /\ [][NextConc]_vars

CliOp(c) ==
    \/ Start(c) \/ Status(c, TRUE) \/ HandleSend(c) \/ CliStopTask(c)
    \/ ArchiveTask(c, TRUE)

NextCli == WorkerCore \/ WorkerPrompt \/ Crash \/ CliOp("c1")
SpecCli == Init /\ [][NextCli]_vars

\* A stop_task call in progress keeps running, and the operating system
\* delivers a signal it has accepted.
SpecFair ==
    /\ Init /\ [][Next]_vars
    /\ WF_vars(StopStep("c1"))
    /\ WF_vars(DeliverSignal)

\* SpecWatch has one process stop the task (by SIGTERM as the service does, or
\* by /quit as the command line does) while another asks for its status.
WorkerQuit ==
    \/ W_NextPrompt \/ W_SdRead \/ W_SdWrite \/ W_SdPipe \/ W_SdPid \/ W_SdExit

NextWatch ==
    \/ WorkerCore \/ WorkerQuit \/ DeliverSignal
    \/ Start("c1") \/ StopTask("c1") \/ CliStopTask("c1")
    \/ Status("c2", FALSE)
SpecWatch == Init /\ [][NextWatch]_vars

\* SpecLines sends prompt texts of any shape through handle_send to a worker
\* that nobody stops.
NextLines ==
    \/ WorkerCore \/ WorkerPrompt
    \/ Start("c1")
    \/ HandleSendAnyText("c1") \/ HandleSendLoad("c1") \/ HandleSendUpdRead("c1")
    \/ HandleSendUpdWrite("c1") \/ HandleSendOpen("c1") \/ HandleSendWrite("c1")
SpecLines == Init /\ [][NextLines]_vars

\* ====================================== task.json as a file under concurrent
\* writers and readers.  SpecMeta looks at one task.json at the grain of the
\* file operations: process c1 rewrites it, with write_metadata of
\* src/tasks/store.rs or with write_metadata of src/storage.rs, while process
\* c2 reads it with read_metadata.
MetaDocs == {[state |-> s, last_prompt |-> p, last_result |-> None] :
                s \in TaskState, p \in {InitialPrompt} \cup Prompts}

\* task.json exists with length zero
EmptyDoc == [state |-> "empty", last_prompt |-> None, last_result |-> None]

InitMeta ==
    /\ dir = TRUE /\ json = NewMetadata(RUNNING, InitialPrompt)
    /\ pidf = None /\ pipe = FALSE /\ log = 0 /\ result = None
    /\ archive = [d \in Days |-> NoDir]
    /\ today = 1
    /\ alive = FALSE /\ wpc = "unborn" /\ wmeta = NoMeta /\ wprompt = None
    /\ wbuf = 0 /\ wexit = None /\ wres = FALSE /\ sig = None /\ fifo = <<>>
    /\ handshake = FALSE /\ exitcode = None
    /\ pc = [c \in Procs |-> "idle"]
    /\ lmeta = [c \in Procs |-> NoMeta]
    /\ lpid = [c \in Procs |-> None]
    /\ lder = [c \in Procs |-> None]
    /\ larg = [c \in Procs |-> None]
    /\ lnow = [c \in Procs |-> 1]
    /\ lsnap = [c \in Procs |-> NoSnap]
    /\ outcome = NoOutcome
    /\ respawns = 0 /\ spawned = 0 /\ sentLog = <<>> /\ turns = <<>>
    /\ tstore = [t \in TaskIds |-> NoTask]
    /\ bpc = "idle" /\ bloc = NoBatch /\ bout = NoOutcome
    /\ logio = NoLog
    /\ follow = NoFollow

\* write_metadata(&metadata) is entered with the record to store; ensure_parent
WriteMetadataBegin(c, legacy) ==
    /\ CanBegin(c)
    /\ \E m \in MetaDocs : lmeta' = [lmeta EXCEPT ![c] = m]
    /\ Begin(c, IF legacy THEN "lw_create" ELSE "sw_temp")
    /\ dir' = TRUE
    /\ UNCHANGED <<json, pidf, pipe, log, result, archive, today>>
    /\ UNCHANGED <<wkVars, lpid, lder, larg, lnow, lsnap, obsVars>>

\* src/storage.rs: fs::write opens task.json with create + truncate
LegacyWriteCreate(c) ==
    /\ pc[c] = "lw_create"
    /\ json' = EmptyDoc
    /\ Goto(c, "lw_write")
    /\ UNCHANGED <<dir, pidf, pipe, log, result, archive, today>>
    /\ UNCHANGED <<wkVars, lmeta, lpid, lder, larg, lnow, lsnap, outcome, obsVars>>

\* src/storage.rs: fs::write writes the payload into the truncated file
LegacyWriteAll(c) ==
    /\ pc[c] = "lw_write"
    /\ json' = lmeta[c]
    /\ Return(c, Out("Written"))
    /\ UNCHANGED <<dir, pidf, pipe, log, result, archive, today, wkVars, obsVars>>

\* src/tasks/store.rs: NamedTempFile::new_in(parent), write_all, sync_all
StoreWriteTemp(c) ==
    /\ pc[c] = "sw_temp"
    /\ Goto(c, "sw_persist")
    /\ UNCHANGED <<fsVars, wkVars, lmeta, lpid, lder, larg, lnow, lsnap, outcome, obsVars>>

\* src/tasks/store.rs: temp.persist(&path) renames the temp file over task.json
StorePersist(c) ==
    /\ pc[c] = "sw_persist"
    /\ json' = lmeta[c]
    /\ Return(c, Out("Written"))
    /\ UNCHANGED <<dir, pidf, pipe, log, result, archive, today, wkVars, obsVars>>

ReadMetadataBegin(c) ==
    /\ CanBegin(c)
    /\ Begin(c, "rm_read")
    /\ UNCHANGED <<fsVars, wkVars, lmeta, lpid, lder, larg, lnow, lsnap, obsVars>>

\* read_metadata: fs::read_to_string, then serde_json::from_str, which fails
\* on an empty document
ReadMetadata(c) ==
    /\ pc[c] = "rm_read"
    /\ IF json = EmptyDoc
       THEN Return(c, Out("ParseError"))
       ELSE Return(c, [kind |-> "Read", doc |-> json])
    /\ UNCHANGED <<fsVars, wkVars, obsVars>>

NextMeta ==
    \/ WriteMetadataBegin("c1", TRUE) \/ LegacyWriteCreate("c1") \/ LegacyWriteAll("c1")
    \/ WriteMetadataBegin("c1", FALSE) \/ StoreWriteTemp("c1") \/ StorePersist("c1")
    \/ ReadMetadataBegin("c2") \/ ReadMetadata("c2")

SpecMeta == InitMeta /\ [][NextMeta]_vars

\* ============================ store-wide operations (src/tasks/service.rs)
\* SpecBatch looks at a store with several tasks at the grain of one task per
\* step: list_tasks, stop_all_running and archive_all walk the tasks that
\* collect_active_tasks finds, while workers may exit on their own.
taskVars == <<fsVars, wkVars, ctlVars, respawns, spawned, sentLog, turns, logio, follow>>

ActiveTasks(ts) == {t \in TaskIds : ts[t].loc = "active"}
ArchivedTasks(ts) == {t \in TaskIds : ts[t].loc = "archived"}

\* fs::read_dir yields the entries of an unchanged directory in one order
RECURSIVE IdsInOrder(_)
IdsInOrder(S) ==
    IF S = {} THEN <<>>
    ELSE LET m == CHOOSE x \in S : \A y \in S : x <= y
         IN <<m>> \o IdsInOrder(S \ {m})

\* derive_active_state(&metadata.state, pid) on the files of one task
derived_state(r) == derive_active_state(r.state, IF r.pid THEN WPid ELSE None, r.live)

Entry(ts, t, state) == [id |-> t, state |-> state, updated |-> ts[t].updated]

\* collect_active_tasks: every directory of the root with a task.json, its
\* state replaced by the derived one
collect_active_tasks(ts) ==
    LET ids == IdsInOrder(ActiveTasks(ts))
    IN [i \in 1..Len(ids) |-> Entry(ts, ids[i], derived_state(ts[ids[i]]))]

\* collect_archived_tasks: every task.json under archive/, as stored
collect_archived_tasks(ts) ==
    LET ids == IdsInOrder(ArchivedTasks(ts))
    IN [i \in 1..Len(ids) |-> Entry(ts, ids[i], ts[ids[i]].state)]

\* Vec::sort_by(|a, b| b.updated_at.cmp(&a.updated_at)): a stable sort, newest
\* first
InsertDesc(q, e) ==
    LET k == Cardinality({i \in 1..Len(q) : q[i].updated >= e.updated})
    IN SubSeq(q, 1, k) \o <<e>> \o SubSeq(q, k + 1, Len(q))

RECURSIVE sort_by(_)
sort_by(q) ==
    IF q = <<>> THEN <<>>
    ELSE InsertDesc(sort_by(SubSeq(q, 1, Len(q) - 1)), q[Len(q)])

\* a list_tasks that returns the entries in the order it collected them
list_tasks_unsorted(ts, include_archived, states) ==
    LET all == collect_active_tasks(ts)
                 \o (IF include_archived THEN collect_archived_tasks(ts) ELSE <<>>)
        Keep(e) == e.state \in states
    IN IF states = {} THEN all ELSE SelectSeq(all, Keep)

\* TaskService::list_tasks
list_tasks(ts, include_archived, states) ==
    LET all == collect_active_tasks(ts)
                 \o (IF include_archived THEN collect_archived_tasks(ts) ELSE <<>>)
        Keep(e) == e.state \in states
    IN sort_by(IF states = {} THEN all ELSE SelectSeq(all, Keep))

Ids(q) == {q[i] : i \in 1..Len(q)}
FailedIds(q) == {q[i].id : i \in 1..Len(q)}

InitBatch ==
    /\ dir = FALSE /\ json = NoMeta /\ pidf = None /\ pipe = FALSE
    /\ log = 0 /\ result = None
    /\ archive = [d \in Days |-> NoDir]
    /\ today = 1
    /\ alive = FALSE /\ wpc = "unborn" /\ wmeta = NoMeta /\ wprompt = None
    /\ wbuf = 0 /\ wexit = None /\ wres = FALSE /\ sig = None /\ fifo = <<>>
    /\ handshake = FALSE /\ exitcode = None
    /\ pc = [c \in Procs |-> "idle"]
    /\ lmeta = [c \in Procs |-> NoMeta]
    /\ lpid = [c \in Procs |-> None]
    /\ lder = [c \in Procs |-> None]
    /\ larg = [c \in Procs |-> None]
    /\ lnow = [c \in Procs |-> 1]
    /\ lsnap = [c \in Procs |-> NoSnap]
    /\ outcome = NoOutcome
    /\ respawns = 0 /\ spawned = 0 /\ sentLog = <<>> /\ turns = <<>>
    /\ tstore \in [TaskIds ->
            {NoTask}
            \cup {[loc |-> "active", state |-> s, pid |-> p, live |-> l, updated |-> u] :
                    s \in {RUNNING, STOPPED, DIED}, p \in BOOLEAN, l \in BOOLEAN,
                    u \in Stamps}
            \cup {[loc |-> "archived", state |-> ARCHIVED, pid |-> FALSE, live |-> FALSE,
                   updated |-> u] : u \in Stamps}]
    /\ \A t \in TaskIds : tstore[t].live => tstore[t].pid
    /\ bpc = "idle" /\ bloc = NoBatch /\ bout = NoOutcome
    /\ logio = NoLog
    /\ follow = NoFollow

\* the worker of a task comes to its end on its own; task.pid stays behind
BatchWorkerExit(t) ==
    /\ tstore[t].live
    /\ tstore' = [tstore EXCEPT ![t].live = FALSE]
    /\ UNCHANGED <<taskVars, bpc, bloc, bout>>

\* list_tasks(options)
ListTasks ==
    /\ bpc = "idle"
    /\ \E inc \in BOOLEAN, states \in SUBSET TaskState :
        bout' = [kind |-> "List", include_archived |-> inc, states |-> states,
                 entries |-> list_tasks(tstore, inc, states)]
    /\ UNCHANGED <<taskVars, tstore, bpc, bloc>>

\* stop_all_running: the first loop selects the active tasks whose task.pid
\* names a live process
StopAllBegin ==
    /\ bpc = "idle"
    /\ LET running == IdsInOrder({t \in ActiveTasks(tstore) :
                                    tstore[t].pid /\ tstore[t].live})
       IN bloc' = [NoBatch EXCEPT !.sel = running, !.rest = running]
    /\ bpc' = "sa_loop" /\ bout' = NoOutcome
    /\ UNCHANGED <<taskVars, tstore>>

\* stop_all_running, second loop: stop_task_paths(&paths)? on the next
\* selected task.  A worker that survives SIGTERM and SIGKILL until the last
\* probe, or a signal that cannot be sent, is an Err, which `?` returns from
\* stop_all_running.
StopAllStep ==
    /\ bpc = "sa_loop" /\ bloc.rest # <<>>
    /\ LET t == Head(bloc.rest)
           r == tstore[t]
           Report(o) == bloc' = [bloc EXCEPT !.rest = Tail(@),
                                             !.reports = Append(@, [id |-> t, outcome |-> o])]
       IN IF ~r.pid
          THEN Report("AlreadyStopped") /\ UNCHANGED <<tstore, bpc, bout>>
          ELSE IF ~r.live
          THEN /\ tstore' = [tstore EXCEPT ![t].pid = FALSE]
               /\ Report("AlreadyStopped") /\ UNCHANGED <<bpc, bout>>
          ELSE \/ /\ tstore' = [tstore EXCEPT ![t] =
                                  [r EXCEPT !.live = FALSE, !.pid = FALSE,
                                            !.state = STOPPED, !.updated = MaxStamp]]
                  /\ Report("Stopped") /\ UNCHANGED <<bpc, bout>>
               \/ /\ bout' = [kind |-> "StopAllFailed", sel |-> bloc.sel,
                              reports |-> bloc.reports, failed |-> t]
                  /\ bpc' = "idle" /\ bloc' = NoBatch
                  /\ UNCHANGED tstore
    /\ UNCHANGED taskVars

\* stop_all_running: Ok(reports)
StopAllReturn ==
    /\ bpc = "sa_loop" /\ bloc.rest = <<>>
    /\ bout' = [kind |-> "StopAll", sel |-> bloc.sel, reports |-> bloc.reports]
    /\ bpc' = "idle" /\ bloc' = NoBatch
    /\ UNCHANGED <<taskVars, tstore>>

\* archive_all: collect_active_tasks and the split by derived state; a task
\* whose derived state is ARCHIVED goes into neither list
ArchiveAllBegin ==
    /\ bpc = "idle"
    /\ LET tasks == collect_active_tasks(tstore)
           IsCandidate(e) == e.state \in {STOPPED, DIED}
           IsRunning(e) == e.state = RUNNING
           IdsOf(q) == [i \in 1..Len(q) |-> q[i].id]
       IN bloc' = [NoBatch EXCEPT !.snap = tstore,
                                  !.sel = IdsOf(SelectSeq(tasks, IsCandidate)),
                                  !.rest = IdsOf(SelectSeq(tasks, IsCandidate)),
                                  !.skipped = IdsOf(SelectSeq(tasks, IsRunning))]
    /\ bpc' = "aa_loop" /\ bout' = NoOutcome
    /\ UNCHANGED <<taskVars, tstore>>

\* archive_all, loop body: archive_task_inner on the next candidate, its
\* result pushed to archived, already or failures.  After the ARCHIVED write
\* the bucket creation or the rename may fail ("io").
ArchiveAllStep ==
    /\ bpc = "aa_loop" /\ bloc.rest # <<>>
    /\ LET t == Head(bloc.rest)
           r == tstore[t]
           d == derived_state(r)
           r1 == IF r.state # d THEN [r EXCEPT !.state = d, !.updated = MaxStamp] ELSE r
           marked == [r1 EXCEPT !.pid = FALSE, !.state = ARCHIVED, !.updated = MaxStamp]
           Archived == bloc' = [bloc EXCEPT !.rest = Tail(@), !.archived = Append(@, t)]
           Already == bloc' = [bloc EXCEPT !.rest = Tail(@), !.already = Append(@, t)]
           Failed(err) == bloc' = [bloc EXCEPT !.rest = Tail(@),
                                               !.failures = Append(@, [id |-> t, err |-> err])]
       IN IF r.loc = "archived" THEN Already /\ UNCHANGED tstore
          ELSE IF r.loc = "none" THEN Failed("not found") /\ UNCHANGED tstore
          ELSE IF d = RUNNING \/ (r.pid /\ r.live)
          THEN Failed("is RUNNING") /\ tstore' = [tstore EXCEPT ![t] = r1]
          ELSE \/ /\ Archived
                  /\ tstore' = [tstore EXCEPT ![t] = [marked EXCEPT !.loc = "archived"]]
               \/ /\ Failed("io")
                  /\ tstore' = [tstore EXCEPT ![t] = marked]
    /\ UNCHANGED <<taskVars, bpc, bout>>

\* archive_all: Ok(summary)
ArchiveAllReturn ==
    /\ bpc = "aa_loop" /\ bloc.rest = <<>>
    /\ bout' = [kind |-> "ArchiveAll", before |-> bloc.snap, skipped |-> bloc.skipped,
                archived |-> bloc.archived, already |-> bloc.already,
                failures |-> bloc.failures]
    /\ bpc' = "idle" /\ bloc' = NoBatch
    /\ UNCHANGED <<taskVars, tstore>>

NextBatch ==
    \/ \E t \in TaskIds : BatchWorkerExit(t)
    \/ StopAllBegin \/ StopAllStep \/ StopAllReturn
    \/ ArchiveAllBegin \/ ArchiveAllStep \/ ArchiveAllReturn

SpecBatch == InitBatch /\ [][NextBatch]_vars

\* list_tasks called on every store, between workers exiting
NextList == ListTasks \/ \E t \in TaskIds : BatchWorkerExit(t)
SpecList == InitBatch /\ [][NextList]_vars

\* ====================== task.json against the name of its directory
\* SpecIds looks at task directories whose task.json may name another id (a
\* directory renamed or copied by hand): TaskPaths::read_metadata and
\* write_metadata of src/tasks/store.rs, read_metadata_file of
\* src/commands/tasks.rs.  jid is the id stored in task.json.
IdDocs == {[id |-> j, state |-> s, updated |-> u] :
              j \in TaskIds, s \in {RUNNING, STOPPED, DIED}, u \in Stamps}

TaskDir(m) == [loc |-> "active", state |-> m.state, pid |-> FALSE, live |-> FALSE,
               updated |-> m.updated, jid |-> m.id]

InitIds ==
    /\ dir = FALSE /\ json = NoMeta /\ pidf = None /\ pipe = FALSE
    /\ log = 0 /\ result = None
    /\ archive = [d \in Days |-> NoDir]
    /\ today = 1
    /\ alive = FALSE /\ wpc = "unborn" /\ wmeta = NoMeta /\ wprompt = None
    /\ wbuf = 0 /\ wexit = None /\ wres = FALSE /\ sig = None /\ fifo = <<>>
    /\ handshake = FALSE /\ exitcode = None
    /\ pc = [c \in Procs |-> "idle"]
    /\ lmeta = [c \in Procs |-> NoMeta]
    /\ lpid = [c \in Procs |-> None]
    /\ lder = [c \in Procs |-> None]
    /\ larg = [c \in Procs |-> None]
    /\ lnow = [c \in Procs |-> 1]
    /\ lsnap = [c \in Procs |-> NoSnap]
    /\ outcome = NoOutcome
    /\ respawns = 0 /\ spawned = 0 /\ sentLog = <<>> /\ turns = <<>>
    /\ tstore \in [TaskIds -> {NoTask} \cup {TaskDir(m) : m \in IdDocs}]
    /\ bpc = "idle" /\ bloc = NoBatch /\ bout = NoOutcome
    /\ logio = NoLog
    /\ follow = NoFollow

\* the ensure!(metadata.id == ...) of the readers: name is self.task_id for
\* TaskPaths (store.task(id) is <root>/<id>), the parent directory's name for
\* read_metadata_file
read_metadata(ts, name) ==
    IF ts[name].loc = "none" THEN [kind |-> "NotFound", op |-> "read", name |-> name]
    ELSE IF ts[name].jid # name
    THEN [kind |-> "IdMismatch", op |-> "read", name |-> name, id |-> ts[name].jid]
    ELSE [kind |-> "Metadata", op |-> "read", name |-> name, id |-> ts[name].jid,
          state |-> ts[name].state]

\* store.task(name).read_metadata()
ReadTaskMetadata(t) ==
    /\ bpc = "idle"
    /\ bout' = [read_metadata(tstore, t) EXCEPT !.op = "read_metadata"]
    /\ UNCHANGED <<taskVars, tstore, bpc, bloc>>

\* read_metadata_file(<root>/<name>/task.json)
ReadMetadataFile(t) ==
    /\ bpc = "idle"
    /\ bout' = [read_metadata(tstore, t) EXCEPT !.op = "read_metadata_file"]
    /\ UNCHANGED <<taskVars, tstore, bpc, bloc>>

\* a write_metadata without the id check
WriteMetadataUnchecked(t, m) ==
    /\ bpc = "idle"
    /\ tstore' = [tstore EXCEPT ![t] = TaskDir(m)]
    /\ bout' = [kind |-> "Written", op |-> "write_metadata", name |-> t, id |-> m.id]
    /\ UNCHANGED <<taskVars, bpc, bloc>>

\* store.task(name).write_metadata(&m): the id check comes before
\* ensure_parent and the temp file
WriteMetadata(t, m) ==
    /\ bpc = "idle"
    /\ IF m.id # t
       THEN /\ bout' = [kind |-> "IdMismatch", op |-> "write_metadata", name |-> t,
                        id |-> m.id]
            /\ UNCHANGED tstore
       ELSE /\ tstore' = [tstore EXCEPT ![t] = TaskDir(m)]
            /\ bout' = [kind |-> "Written", op |-> "write_metadata", name |-> t,
                        id |-> m.id]
    /\ UNCHANGED <<taskVars, bpc, bloc>>

NextIds ==
    \E t \in TaskIds :
        \/ ReadTaskMetadata(t) \/ ReadMetadataFile(t)
        \/ \E m \in IdDocs : WriteMetadata(t, m)

SpecIds == InitIds /\ [][NextIds]_vars

\* ===================== the archive tree (find_archived_task, store.rs)
\* SpecFind looks at task directories placed under archive/ below a chain of
\* bucket directories of any length up to MaxDepth (archive_task uses the
\* three levels YYYY/MM/DD).  A directory is the sequence of names from
\* archive/ down to it; bucket names are kept apart from task ids.
BucketNames == {0 - k : k \in 1..MaxBuckets}
BucketChains == UNION {[1..k -> BucketNames] : k \in 0..MaxDepth}

ArchivedDir(t, chain, s) ==
    [loc |-> "archived", state |-> s, pid |-> FALSE, live |-> FALSE, updated |-> 1,
     jid |-> t, path |-> chain \o <<t>>]

\* every directory under archive/, the root <<>> included
ArchiveDirs(ts) ==
    {<<>>} \cup UNION {{SubSeq(ts[t].path, 1, k) : k \in 1..Len(ts[t].path)} :
                          t \in ArchivedTasks(ts)}

\* fs::read_dir(dir) filtered by file_type().is_dir(): the order of the entries
\* is the file system's, taken here as ascending or descending by name
RECURSIVE NamesInOrder(_, _)
NamesInOrder(S, asc) ==
    IF S = {} THEN <<>>
    ELSE LET m == CHOOSE x \in S : \A y \in S : IF asc THEN x <= y ELSE x >= y
         IN <<m>> \o NamesInOrder(S \ {m}, asc)

SubDirs(ts, d, asc) ==
    LET names == {p[Len(d) + 1] : p \in {q \in ArchiveDirs(ts) :
                        Len(q) = Len(d) + 1 /\ SubSeq(q, 1, Len(d)) = d}}
        order == NamesInOrder(names, asc)
    IN [i \in 1..Len(order) |-> d \o <<order[i]>>]

\* the while loop over the queue: a directory whose file name is the id ends
\* the search with TaskPaths::from_directory(dir, id).read_metadata()?, any
\* other directory hands its subdirectories to the back of the queue
RECURSIVE find_archived_queue(_, _, _, _)
find_archived_queue(ts, id, asc, queue) ==
    IF queue = <<>> THEN [kind |-> "None", op |-> "find_archived_task", name |-> id]
    ELSE LET d == Head(queue)
         IN IF d # <<>> /\ d[Len(d)] = id
            THEN [read_metadata(ts, id) EXCEPT !.op = "find_archived_task"]
                    @@ [dir |-> d]
            ELSE find_archived_queue(ts, id, asc, Tail(queue) \o SubDirs(ts, d, asc))

\* a search that looks only at the directories directly under archive/
find_archived_flat(ts, id, asc) ==
    IF <<id>> \in ArchiveDirs(ts)
    THEN [read_metadata(ts, id) EXCEPT !.op = "find_archived_task"] @@ [dir |-> <<id>>]
    ELSE [kind |-> "None", op |-> "find_archived_task", name |-> id]

\* TaskStore::find_archived_task(id): the queue starts with archive/
find_archived(ts, id, asc) ==
    find_archived_queue(ts, id, asc, <<<<>>>>)

InitFind ==
    /\ dir = FALSE /\ json = NoMeta /\ pidf = None /\ pipe = FALSE
    /\ log = 0 /\ result = None
    /\ archive = [d \in Days |-> NoDir]
    /\ today = 1
    /\ alive = FALSE /\ wpc = "unborn" /\ wmeta = NoMeta /\ wprompt = None
    /\ wbuf = 0 /\ wexit = None /\ wres = FALSE /\ sig = None /\ fifo = <<>>
    /\ handshake = FALSE /\ exitcode = None
    /\ pc = [c \in Procs |-> "idle"]
    /\ lmeta = [c \in Procs |-> NoMeta]
    /\ lpid = [c \in Procs |-> None]
    /\ lder = [c \in Procs |-> None]
    /\ larg = [c \in Procs |-> None]
    /\ lnow = [c \in Procs |-> 1]
    /\ lsnap = [c \in Procs |-> NoSnap]
    /\ outcome = NoOutcome
    /\ respawns = 0 /\ spawned = 0 /\ sentLog = <<>> /\ turns = <<>>
    /\ tstore \in [TaskIds -> {NoTask} \cup {ArchivedDir(t, chain, ARCHIVED) :
                                              t \in TaskIds, chain \in BucketChains}]
    /\ \A t \in TaskIds : tstore[t].loc = "archived" => tstore[t].jid = t
    /\ bpc = "idle" /\ bloc = NoBatch /\ bout = NoOutcome
    /\ logio = NoLog
    /\ follow = NoFollow

\* a task directory is moved to <bucket chain>/<id> with the task.json it has
\* (the rename of archive_task, or a directory placed by hand)
PlaceArchived(t, chain, s) ==
    /\ bpc = "idle"
    /\ tstore[t].loc = "none"
    /\ tstore' = [tstore EXCEPT ![t] = ArchivedDir(t, chain, s)]
    /\ UNCHANGED <<taskVars, bpc, bloc, bout>>

\* store.find_archived_task(id)
FindArchivedTask(id) ==
    /\ bpc = "idle"
    /\ \E asc \in BOOLEAN : bout' = find_archived(tstore, id, asc)
    /\ UNCHANGED <<taskVars, tstore, bpc, bloc>>

NextFind ==
    \E t \in TaskIds :
        \/ FindArchivedTask(t)
        \/ \E chain \in BucketChains, s \in {STOPPED, ARCHIVED} : PlaceArchived(t, chain, s)

SpecFind == InitFind /\ [][NextFind]_vars

\* ================ the log path of the worker (src/worker/child.rs)
\* SpecLog follows every line the assistant emits on stdout and stderr from
\* the select! loop of run_invocation to task.log.  A line is the stream it
\* came on, its place in the order of reception, and whether it is the
\* thread.started event that carries the thread id.
LogLine(stream, th) == [s |-> stream, n |-> Len(logio.recv) + 1, th |-> th]

\* initialize_session: the log is opened for append, the buffered stdout
\* lines are written, then the buffered stderr lines, and the writer flushed
initialize_session_log(l) ==
    [l EXCEPT !.session = TRUE,
              !.file = l.file \o l.out \o l.err,
              !.out = <<>>, !.err = <<>>]

\* handle_stdout_line
handle_stdout_line(l, line) ==
    LET l1 == IF line.th /\ ~l.session THEN initialize_session_log(l) ELSE l
    IN IF l1.session
       THEN [l1 EXCEPT !.writer = Append(@, line), !.recv = Append(@, line)]
       ELSE [l1 EXCEPT !.out = Append(@, line), !.recv = Append(@, line)]

\* handle_stderr_line
handle_stderr_line(l, line) ==
    IF l.session
    THEN [l EXCEPT !.writer = Append(@, line), !.recv = Append(@, line)]
    ELSE [l EXCEPT !.err = Append(@, line), !.recv = Append(@, line)]

StdoutLine(th) ==
    /\ Len(logio.recv) < MaxLines
    /\ logio' = handle_stdout_line(logio, LogLine("out", th))
    /\ UNCHANGED <<fsVars, wkVars, ctlVars, respawns, spawned, sentLog, turns,
                   tstore, bpc, bloc, bout, follow>>

StderrLine ==
    /\ Len(logio.recv) < MaxLines
    /\ logio' = handle_stderr_line(logio, LogLine("err", FALSE))
    /\ UNCHANGED <<fsVars, wkVars, ctlVars, respawns, spawned, sentLog, turns,
                   tstore, bpc, bloc, bout, follow>>

\* the BufWriter hands its contents to the file: session.log.flush() at the
\* end of an invocation and in shutdown, or a full buffer
LogFlush ==
    /\ logio.session /\ logio.writer # <<>>
    /\ logio' = [logio EXCEPT !.file = @ \o logio.writer, !.writer = <<>>]
    /\ UNCHANGED <<fsVars, wkVars, ctlVars, respawns, spawned, sentLog, turns,
                   tstore, bpc, bloc, bout, follow>>

NextLog == StdoutLine(TRUE) \/ StdoutLine(FALSE) \/ StderrLine \/ LogFlush

SpecLog == Init /\ [][NextLog]_vars

\* ============================================ the two liveness probes
\* SpecProbe hands every pid value and every answer of kill(pid, 0) to the
\* probe of src/commands/common.rs (used by stop, send and archive) and to
\* the probe inside src/tasks/status.rs (used by derive_active_state).
Pids == (0 - 1)..MaxPid
KillResults == {"ok", "ESRCH", "EPERM", "EINVAL"}   \* EINVAL: any other errno

\* what kill(pid, 0) can answer: pid 0 names the caller's own process group,
\* which exists and may be signalled
KillAnswers(pid) == IF pid = 0 THEN {"ok"} ELSE KillResults

ProbeInputs == {[pid |-> p, res |-> r, stored |-> s] :
                  p \in Pids, r \in KillResults, s \in TaskState}

\* is_process_running of src/commands/common.rs
common_is_process_running(pid, res) ==
    IF pid <= 0 THEN [kind |-> "Ok", running |-> FALSE, probed |-> FALSE]
    ELSE IF res = "ok" THEN [kind |-> "Ok", running |-> TRUE, probed |-> TRUE]
    ELSE IF res = "ESRCH" THEN [kind |-> "Ok", running |-> FALSE, probed |-> TRUE]
    ELSE IF res = "EPERM" THEN [kind |-> "Ok", running |-> TRUE, probed |-> TRUE]
    ELSE [kind |-> "Err", running |-> FALSE, probed |-> TRUE]

\* is_process_running of src/tasks/status.rs
status_is_process_running(pid, res) ==
    IF res = "ok" THEN [kind |-> "Ok", running |-> TRUE, probed |-> TRUE]
    ELSE IF res = "EPERM" THEN [kind |-> "Ok", running |-> TRUE, probed |-> TRUE]
    ELSE [kind |-> "Ok", running |-> FALSE, probed |-> TRUE]

InitProbe ==
    /\ dir = FALSE /\ json = NoMeta /\ pidf = None /\ pipe = FALSE
    /\ log = 0 /\ result = None
    /\ archive = [d \in Days |-> NoDir]
    /\ today = 1
    /\ alive = FALSE /\ wpc = "unborn" /\ wmeta = NoMeta /\ wprompt = None
    /\ wbuf = 0 /\ wexit = None /\ wres = FALSE /\ sig = None /\ fifo = <<>>
    /\ handshake = FALSE /\ exitcode = None
    /\ pc = [c \in Procs |-> "idle"]
    /\ lmeta = [c \in Procs |-> NoMeta]
    /\ lpid = [c \in Procs |-> None]
    /\ lder = [c \in Procs |-> None]
    /\ larg = [c \in Procs |-> None]
    /\ lnow = [c \in Procs |-> 1]
    /\ lsnap = [c \in Procs |-> NoSnap]
    /\ outcome = NoOutcome
    /\ respawns = 0 /\ spawned = 0 /\ sentLog = <<>> /\ turns = <<>>
    /\ tstore = [t \in TaskIds |-> NoTask]
    /\ bpc = "idle" /\ bout = NoOutcome
    /\ bloc \in ProbeInputs /\ bloc.res \in KillAnswers(bloc.pid)
    /\ logio = NoLog
    /\ follow = NoFollow

\* stop_task_paths, send_prompt, archive_task_inner: is_process_running(pid)?
ProbeCommon ==
    /\ bpc = "idle"
    /\ bout' = common_is_process_running(bloc.pid, bloc.res) @@ [op |-> "common"]
    /\ UNCHANGED <<taskVars, tstore, bpc, bloc>>

\* derive_active_state(&stored, Some(pid)) with its own probe
ProbeDerive ==
    /\ bpc = "idle"
    /\ LET r == status_is_process_running(bloc.pid, bloc.res)
       IN bout' = r @@ [op |-> "derive",
                        state |-> derive_active_state(bloc.stored, WPid, r.running)]
    /\ UNCHANGED <<taskVars, tstore, bpc, bloc>>

NextProbe == ProbeCommon \/ ProbeDerive

SpecProbe == InitProbe /\ [][NextProbe]_vars

\* ======================================== log --follow (src/commands/log.rs)
\* SpecFollow runs one `log --follow` or `log --forever` command next to the
\* worker, stop_task and archive_task.  The command reads task.log through the
\* descriptor it opened, so it keeps reading the same file after archive_task
\* has moved the task directory.
ArchivedSlots == {d \in Days : archive[d].exists}

\* lines in the task.log the command has open
FileLines ==
    IF ArchivedSlots # {} THEN archive[CHOOSE d \in ArchivedSlots : TRUE].log ELSE log

\* resolve_follow_metadata: Active when the active task.json exists, else
\* Archived with the state stored in the archived task.json, else Missing
resolve_follow_metadata ==
    IF json # NoMeta THEN [metadata |-> "Active", state |-> None]
    ELSE IF ArchivedSlots # {}
         THEN [metadata |-> "Archived",
               state |-> archive[CHOOSE d \in ArchivedSlots : TRUE].json.state]
         ELSE [metadata |-> "Missing", state |-> None]

\* FollowContext::current_state: the stored state of the active task.json
\* (None when the file is gone), or the state captured from the archive
current_state ==
    CASE follow.metadata = "Active" -> json.state
      [] follow.metadata = "Archived" -> follow.state
      [] OTHER -> None

\* handle_log with --follow or --forever: prepare_log_descriptor finds
\* task.log (written by the worker before it prints the handshake), the file
\* is opened and follow_log entered
FollowBegin(forever) ==
    /\ follow.pc = "off" /\ handshake
    /\ follow' = [pc |-> "loop", forever |-> forever,
                  metadata |-> resolve_follow_metadata.metadata,
                  state |-> resolve_follow_metadata.state,
                  pos |-> 0, idle_pending |-> FALSE]
    /\ UNCHANGED <<fsVars, wkVars, ctlVars, respawns, spawned, sentLog, turns,
                   tstore, bpc, bloc, bout, logio>>

\* follow_log, read_line_retry returned a line: print it
FollowLine ==
    /\ follow.pc = "loop" /\ follow.pos < FileLines
    /\ follow' = [follow EXCEPT !.pos = @ + 1, !.idle_pending = FALSE]
    /\ UNCHANGED <<fsVars, wkVars, ctlVars, respawns, spawned, sentLog, turns,
                   tstore, bpc, bloc, bout, logio>>

\* follow_log, read_line_retry returned 0: with --forever sleep and go on;
\* else look at current_state, break or sleep and go on
FollowIdle ==
    /\ follow.pc = "loop" /\ follow.pos >= FileLines
    /\ follow' =
         IF follow.forever THEN follow
         ELSE CASE current_state = RUNNING -> [follow EXCEPT !.idle_pending = FALSE]
                [] current_state = STOPPED ->
                     IF follow.idle_pending THEN [follow EXCEPT !.pc = "done"]
                     ELSE [follow EXCEPT !.idle_pending = TRUE]
                [] OTHER -> [follow EXCEPT !.pc = "done"]
    /\ UNCHANGED <<fsVars, wkVars, ctlVars, respawns, spawned, sentLog, turns,
                   tstore, bpc, bloc, bout, logio>>

\* one iteration of the loop of follow_log
FollowPoll == FollowLine \/ FollowIdle

NextFollow ==
    \/ WorkerCore \/ WorkerOutput \/ Crash \/ DeliverSignal
    \/ Start("c1") \/ StopTask("c1") \/ ArchiveTask("c1", FALSE)
    \/ FollowBegin(TRUE) \/ FollowBegin(FALSE) \/ FollowPoll

\* the steps of an archive_task call that has begun
ArchiveStep(c) ==
    \/ ArchiveFind(c) \/ ArchiveMeta(c) \/ ArchivePid(c)
    \/ ArchiveDerive(c, FALSE) \/ ArchiveFix(c) \/ ArchiveCheck(c) \/ ArchiveRemovePid(c)
    \/ ArchiveRemovePipe(c) \/ ArchiveMark(c) \/ ArchiveBucket(c) \/ ArchiveDest(c)
    \/ ArchiveRename(c)

\* The log command is a process of its own that polls every 250 ms until it
\* breaks out of the loop, so an iteration that is due is taken.  A stop or
\* archive call that has begun runs to its end, and the operating system
\* delivers a signal it has accepted.
SpecFollow ==
    /\ Init /\ [][NextFollow]_vars
    /\ WF_vars(FollowPoll)
    /\ WF_vars(StopStep("c1")) /\ WF_vars(ArchiveStep("c1"))
    /\ WF_vars(DeliverSignal)

\* ================================================================= claims
ArchiveMutatingPcs == {"ar_rmpid", "ar_rmpipe", "ar_mark", "ar_bucket", "ar_dest", "ar_rename"}
ArchiveFailures == {"BucketFailed", "DestinationExists", "RenameFailed"}
Pos(q, x) == CHOOSE i \in 1..Len(q) : q[i] = x

\* The derivation table of the design: the derived state for a stored state,
\* a pid file that is present or absent, and the probe's answer.  The row
\* (DIED, present, not alive) is not in the table and is left open.
TableAllows(stored, present, running, derived) ==
    CASE stored = RUNNING -> derived = (IF present /\ running THEN RUNNING ELSE DIED)
      [] stored = STOPPED -> derived = STOPPED
      [] stored = ARCHIVED -> derived = ARCHIVED
      [] stored = DIED -> IF present /\ running THEN derived = RUNNING
                          ELSE IF ~present THEN derived = DIED
                          ELSE TRUE

\* C1: every state derived for an active task is the one the table gives for
\* the stored state, the presence of task.pid and the liveness of its pid.
C1_DerivationFollowsTable ==
    (outcome.kind = "Status" /\ outcome.active)
        => TableAllows(outcome.stored, outcome.pid # None, outcome.running, outcome.state)

\* C2: a stop_task that finds the recorded worker alive leads to the worker's
\* termination; SIGKILL is only sent after SIGTERM; and when the call returns
\* Stopped, task.json stores STOPPED.
C2_StopTerminatesWorker ==
    /\ (pc["c1"] = "st_pid" /\ pidf = WPid /\ alive) ~> ~alive
    /\ [][sig' = "KILL" /\ sig # "KILL" => sig = "TERM"]_vars
    /\ [][outcome'.kind = "Stopped" /\ outcome.kind # "Stopped"
              => json'.state = STOPPED /\ ~alive']_vars

C2_Witness ==
    /\ outcome.kind = "Stopped" /\ json.state = STOPPED
    /\ exitcode = "killed" /\ ~alive

\* C3: once archive_task has returned Archived, the active directory is gone
\* and the bucket of the archival day holds the task with state ARCHIVED, the
\* log and result it had, and neither task.pid nor task.pipe.
C3_ArchivedLayout ==
    /\ [](outcome.kind = "Archived" =>
            /\ ~dir /\ json = NoMeta /\ pidf = None /\ ~pipe
            /\ archive[outcome.day].exists
            /\ archive[outcome.day].json.state = ARCHIVED
            /\ archive[outcome.day].pidf = None
            /\ ~archive[outcome.day].pipe)
    /\ [][outcome'.kind = "Archived" /\ outcome.kind # "Archived" =>
            /\ archive'[outcome'.day].log = log
            /\ archive'[outcome'.day].result = result]_vars

C3_Witness ==
    /\ outcome.kind = "Archived"
    /\ outcome.before.pidf = WPid /\ outcome.before.pipe
    /\ archive[outcome.day].log > 0 /\ archive[outcome.day].result # None

\* C4: no task has a directory in the active root and one under archive/ at
\* the same time.
C4_ActiveOrArchived == ~(dir /\ ArchivedDays # {})

\* C5: an archive_task that fails at bucket creation, at the destination check
\* or at the rename leaves either the active directory as it was (task.json,
\* task.pid, task.pipe) or a complete archived copy with state ARCHIVED.
C5_ArchiveFailureAtomic ==
    outcome.kind \in ArchiveFailures =>
        \/ /\ dir /\ json = outcome.before.json
           /\ pidf = outcome.before.pidf /\ pipe = outcome.before.pipe
        \/ /\ ~dir
           /\ \E d \in Days : archive[d].exists /\ archive[d].json.state = ARCHIVED

\* C6: prompts are taken in the order their sends completed: when a turn has
\* been started for a later prompt, every earlier sent prompt that starts a
\* turn (one that is not blank) had its turn started before.
C6_PromptOrder ==
    \A i, j \in 1..Len(sentLog) :
        (i < j /\ sentLog[i] # Blank /\ sentLog[j] \in Range(turns))
            => /\ sentLog[i] \in Range(turns)
               /\ Pos(turns, sentLog[i]) < Pos(turns, sentLog[j])

C6_Witness == turns = <<InitialPrompt, "p1", "p2">> /\ Blank \in Range(sentLog)

\* C7: a prompt whose send returned success and that the worker has taken off
\* the FIFO was given a turn: once the worker is back waiting for input, every
\* sent line that is no longer queued is the prompt of a started turn.
C7_SentPromptGetsTurn ==
    (alive /\ wpc = "next") =>
        \A p \in Range(sentLog) : p \notin Range(fifo) => p \in Range(turns)

\* C8: send_prompt does not return success for a task whose derived state is
\* DIED or ARCHIVED.
C8_NoSendToDiedOrArchived ==
    outcome.kind = "Sent" =>
        derive_active_state(outcome.stored, outcome.pid, outcome.running)
            \notin {DIED, ARCHIVED}

\* C9: archive_task never gets past its checks while the recorded worker is
\* alive, and after the refusal the task is still in the active root with its
\* task.pid and task.pipe, and nothing is in the archive.
C9_RunningNotArchived ==
    /\ pc["c1"] \in ArchiveMutatingPcs => ~is_process_running(lpid["c1"])
    /\ outcome.kind = "RefusedRunning" =>
           /\ dir /\ json # NoMeta /\ pidf = WPid /\ pipe
           /\ ArchivedDays = {}

C9_Witness == outcome.kind = "RefusedRunning" /\ alive /\ json.state = RUNNING

\* C10: after stop_task has returned Stopped or AlreadyStopped, task.pid is
\* absent and the process it recorded is not alive.
C10_StoppedMeansGone ==
    outcome.kind \in {"Stopped", "AlreadyStopped"} =>
        pidf = None /\ ~is_process_running(outcome.pid)

\* C11: a stop_task that finds no task.pid, or a task.pid naming a process
\* that is gone, returns AlreadyStopped without touching task.json, the task
\* directory or the archive, and leaves no task.pid, so that the next
\* stop_task returns AlreadyStopped as well.
C11_StopIdempotent ==
    /\ [](outcome.kind = "AlreadyStopped" =>
            pidf = None /\ ~is_process_running(outcome.pid))
    /\ [][(pc["c1"] \in {"st_pid", "st_probe", "st_stale"} /\ pc'["c1"] # pc["c1"])
            => json' = json /\ dir' = dir /\ archive' = archive]_vars
    /\ [][(pc["c1"] = "st_pid" /\ pc'["c1"] # "st_pid" /\ pidf = None)
            => outcome'.kind = "AlreadyStopped"]_vars
    /\ [][(pc["c1"] = "st_probe" /\ pc'["c1"] # "st_probe"
           /\ ~is_process_running(lpid["c1"])) => pc'["c1"] = "st_stale"]_vars
    /\ [][(pc["c1"] = "st_stale" /\ pc'["c1"] # "st_stale")
            => outcome'.kind = "AlreadyStopped"]_vars

C11_Witness ==
    /\ outcome.kind = "AlreadyStopped" /\ outcome.pid = WPid
    /\ json.state = RUNNING /\ pidf = None

\* C12: a step of a control operation that writes a record into task.json is
\* the STOPPED write of stop_task or the ARCHIVED write of archive_task, and
\* it is taken only when no worker process is alive.
C12_ServiceWritesOnlyStopArchive ==
    [][(pc'["c1"] # pc["c1"] /\ json' # json /\ json' # NoMeta) =>
          /\ ~alive
          /\ \/ pc["c1"] = "st_mwrite" /\ json'.state = STOPPED
             \/ pc["c1"] = "ar_mark" /\ json'.state = ARCHIVED]_vars

\* C13: a read_metadata that runs while task.json is being rewritten returns
\* a complete record, the one before the write or the one after it; it never
\* finds a partial or empty document.
C13_NoTornRead ==
    /\ outcome.kind # "ParseError"
    /\ outcome.kind = "Read" => outcome.doc \in MetaDocs

\* positions at which the worker has the FIFO open and has not removed it
AcceptingPcs == PipeOpenPcs \ {"sd_pid", "sd_exit"}

\* C14: task.pipe exists exactly while a live worker accepts prompts: not
\* before the worker creates it, and not after the worker has exited.
C14_PipeIffAccepting == pipe <=> (alive /\ wpc \in AcceptingPcs)

C16_LivePidReportsRunning ==
    (outcome.kind = "Status" /\ outcome.active
        /\ outcome.pid # None /\ outcome.running) => outcome.state = RUNNING

\* C17: a status of an active task whose task.pid names a process that no
\* longer exists reports DIED.
C17_DeadPidReportsDied ==
    (outcome.kind = "Status" /\ outcome.active
        /\ outcome.pid # None /\ ~outcome.running) => outcome.state = DIED

\* C18: once the task is under archive/, no later operation changes or removes
\* the archived directory, its task.json stays in state ARCHIVED, and the
\* task has no directory in the active root any more.
C18_ArchivalTerminal ==
    /\ [](ArchivedDays # {} => ~dir /\ json = NoMeta)
    /\ [](\A d \in ArchivedDays : archive[d].json.state = ARCHIVED)
    /\ [][\A d \in Days : archive[d].exists => archive'[d] = archive[d]]_vars

\* the task is archived and a later stop_task has run against it
C18_Witness ==
    /\ ArchivedDays # {}
    /\ outcome.kind = "AlreadyStopped"

\* C19: an archive_task on a task that is already under archive/ returns
\* AlreadyArchived, and no step of that call changes anything on disk.
C19_ArchiveTwiceNoOp ==
    /\ [](outcome.kind = "AlreadyArchived" => ArchivedDays # {} /\ ~dir)
    /\ [][(pc["c1"] = "ar_find" /\ pc'["c1"] # "ar_find" /\ ArchivedDays # {})
            => outcome'.kind = "AlreadyArchived" /\ fsVars' = fsVars]_vars
    /\ [][(pc["c1"] = "idle" /\ pc'["c1"] = "ar_find") => fsVars' = fsVars]_vars

C19_Witness ==
    /\ outcome.kind = "AlreadyArchived"
    /\ \E d \in ArchivedDays : archive[d].json.state = ARCHIVED

\* processes of the task that are alive: the worker launched by start_task
\* and the ones launched by send_prompt
LiveWorkers == (IF alive THEN 1 ELSE 0) + spawned

\* C20: at most one worker process of the task is alive at any time.
C20_SingleWorker == LiveWorkers <= 1

WorkerUnreachable == {"MissingPipe", "Inactive"}

StartErrors == {"StartFailed", "StartEmptyId", "StartTimedOut"}

\* C22: a start_task whose wait for the handshake ends without a task id
\* (timeout, blank line, end of file) returns an error with the worker
\* process gone; it returns Started only when the handshake line was there;
\* and a wait without a handshake can always end by the timeout.
C22_StartFailureKillsWorker ==
    /\ [][(pc["c1"] = "start_recv" /\ pc'["c1"] = "idle") =>
            IF handshake THEN outcome'.kind = "Started"
            ELSE outcome'.kind \in StartErrors /\ ~alive']_vars
    /\ [][(pc["c1"] = "start_recv" /\ pc'["c1"] = "idle" /\ alive /\ wpc = "noid")
            => outcome'.kind \in {"StartEmptyId", "StartTimedOut"}]_vars
    /\ [](outcome.kind \in StartErrors => ~alive)
    /\ []((pc["c1"] = "start_recv" /\ ~handshake /\ alive)
            => ENABLED StartRecvTimeout("c1"))

\* the wait timed out after the worker had begun to write the task's files
C22_Witness ==
    /\ outcome.kind = "StartTimedOut" /\ exitcode = "killed" /\ ~alive
    /\ dir /\ pidf = WPid

\* C23: stop_all_running and archive_all do not stop at a task that fails:
\* neither returns before every selected task has been processed, and what
\* they return holds an outcome for each selected task.
C23_BatchNeverAborts ==
    /\ bout.kind # "StopAllFailed"
    /\ bout.kind = "StopAll" =>
          {bout.reports[i].id : i \in 1..Len(bout.reports)} = Ids(bout.sel)
    /\ bout.kind = "ArchiveAll" =>
          \A t \in ActiveTasks(bout.before) :
              derived_state(bout.before[t]) \in {STOPPED, DIED}
                  => t \in Ids(bout.archived) \cup Ids(bout.already)
                             \cup FailedIds(bout.failures)

\* the groups of an archive_all summary that name task t
GroupsOf(out, t) ==
    {g \in {"skipped", "archived", "already", "failures"} :
        \/ g = "skipped" /\ t \in Ids(out.skipped)
        \/ g = "archived" /\ t \in Ids(out.archived)
        \/ g = "already" /\ t \in Ids(out.already)
        \/ g = "failures" /\ t \in FailedIds(out.failures)}

\* C24: in the summary archive_all returns, every task that was active is in
\* exactly one group; a task derived RUNNING is skipped and still active; and
\* a task derived STOPPED or DIED is archived and gone from the active root,
\* unless the file system failed while it was moved.
C24_ArchiveAllGroups ==
    bout.kind = "ArchiveAll" =>
        \A t \in ActiveTasks(bout.before) :
            /\ Cardinality(GroupsOf(bout, t)) = 1
            /\ derived_state(bout.before[t]) = RUNNING
                  => t \in Ids(bout.skipped) /\ tstore[t].loc = "active"
            /\ derived_state(bout.before[t]) \in {STOPPED, DIED}
                  => \/ t \in Ids(bout.archived) /\ tstore[t].loc = "archived"
                     \/ \E i \in 1..Len(bout.failures) :
                           bout.failures[i] = [id |-> t, err |-> "io"]

\* no directory or file of the task exists, in the active root or the archive
NothingOnDisk ==
    /\ ~dir /\ json = NoMeta /\ pidf = None /\ ~pipe /\ log = 0 /\ result = None
    /\ ArchivedDays = {}

\* an operation of c1 other than start_task, called with a prompt that is not
\* blank, returns while the task id has never been started
ReturnsOnUnknownId ==
    /\ wpc = "unborn" /\ pc["c1"] # "idle" /\ pc'["c1"] = "idle"
    /\ larg["c1"] # Blank

\* C25 as stated: status, send, stop and archive on an id that exists neither
\* in the active root nor under archive/ each return the not-found error and
\* create nothing for that id.
C25_UnknownIdNotFound ==
    /\ [](wpc = "unborn" => NothingOnDisk)
    /\ [][ReturnsOnUnknownId => outcome'.kind = "NotFound"]_vars

\* C25 amended: on such an id status, send and archive return the not-found
\* error, stop_task returns AlreadyStopped, and none of them creates a
\* directory or file for the id.
C25_UnknownIdRefused ==
    /\ [](wpc = "unborn" => NothingOnDisk)
    /\ [][ReturnsOnUnknownId =>
            outcome'.kind = (IF pc["c1"] = "st_pid" THEN "AlreadyStopped" ELSE "NotFound")]_vars

\* stop_task has returned for an id that was never started
C25_Witness ==
    /\ wpc = "unborn" /\ outcome.kind = "AlreadyStopped" /\ outcome.pid = None
    /\ NothingOnDisk

\* C26: reading the metadata of a directory whose task.json stores another id
\* than the directory's name fails, with either reader; and write_metadata(m)
\* with m.id different from the directory's task id fails and leaves every
\* task directory as it was.
C26_IdMatchesDirectory ==
    /\ [][(bout' # bout /\ bout'.op \in {"read_metadata", "read_metadata_file"}
           /\ tstore[bout'.name].loc # "none")
            => IF tstore[bout'.name].jid = bout'.name
               THEN bout'.kind = "Metadata" /\ bout'.id = bout'.name
               ELSE bout'.kind = "IdMismatch"]_vars
    /\ [][(bout' # bout /\ bout'.op = "write_metadata")
            => IF bout'.id = bout'.name
               THEN bout'.kind = "Written" /\ tstore'[bout'.name].jid = bout'.name
               ELSE bout'.kind = "IdMismatch" /\ tstore' = tstore]_vars

\* a write with a foreign id was refused on a directory that does not exist
C26_Witness ==
    /\ bout.kind = "IdMismatch" /\ bout.op = "write_metadata"
    /\ tstore[bout.name].loc = "none"

\* C27: when the worker finishes a turn for prompt p whose assistant exited
\* cleanly and left a final message, task.json holds last_result = that
\* message and task.result holds the message, and last_prompt is p unless a
\* send has already recorded a prompt that has had no turn yet; this holds
\* whatever the control operations did in the meantime.
C27_TurnResultRecorded ==
    [][(alive /\ wpc = "end_ret" /\ wpc' = "next" /\ wexit = STOPPED /\ wres) =>
          /\ json.last_result = wprompt
          /\ result = wprompt
          /\ json.last_prompt = wprompt \/ json.last_prompt \notin Range(turns)]_vars


\* C28: get_status answers with the active record and the state derived from
\* the stored state, the pid file and the liveness probe whenever task.json is
\* present in the task directory; when it is absent and the task is under
\* archive/, the answer is state ARCHIVED with no pid.
C28_StatusActiveElseArchived ==
    /\ [][(pc["c1"] = "gs_meta" /\ pc'["c1"] # "gs_meta" /\ json # NoMeta)
            => pc'["c1"] = "gs_pid" /\ lmeta'["c1"] = json]_vars
    /\ [][(pc["c1"] = "gs_probe" /\ pc'["c1"] = "idle")
            => /\ outcome'.kind = "Status" /\ outcome'.active
               /\ outcome'.state = derive_active_state(lmeta["c1"].state, lpid["c1"],
                                                       is_process_running(lpid["c1"]))]_vars
    /\ [][(pc["c1"] = "gs_meta" /\ pc'["c1"] # "gs_meta" /\ json = NoMeta
           /\ ArchivedDays # {})
            => /\ outcome'.kind = "Status" /\ ~outcome'.active
               /\ outcome'.state = ARCHIVED /\ outcome'.pid = None]_vars


\* C29: the entries list_tasks returns are ordered by updated_at, newest
\* first; with a state filter S the answer is the unfiltered answer for the
\* same store restricted to the entries whose derived state is in S, in the
\* same order; a task under archive/ is listed only when include_archived is
\* set, and every requested task is listed.
C29_ListSortedAndFiltered ==
    [][(bout'.kind = "List" /\ bout' # bout) =>
          LET out == bout'.entries
              S == bout'.states
              InS(e) == e.state \in S
              unfiltered == list_tasks(tstore, bout'.include_archived, {})
          IN /\ \A i, j \in 1..Len(out) : i < j => out[i].updated >= out[j].updated
             /\ S # {} => out = SelectSeq(unfiltered, InS)
             /\ S = {} => out = unfiltered
             /\ \A i \in 1..Len(out) :
                   /\ out[i].id \in ActiveTasks(tstore) \cup ArchivedTasks(tstore)
                   /\ out[i].id \in ArchivedTasks(tstore) => bout'.include_archived
                   /\ out[i].id \in ActiveTasks(tstore)
                        => out[i].state = derived_state(tstore[out[i].id])
                   /\ out[i].updated = tstore[out[i].id].updated
             /\ \A t \in ActiveTasks(tstore) :
                   (S = {} \/ derived_state(tstore[t]) \in S)
                        => \E i \in 1..Len(out) : out[i].id = t
             /\ \A t \in ArchivedTasks(tstore) :
                   (bout'.include_archived /\ (S = {} \/ tstore[t].state \in S))
                        => \E i \in 1..Len(out) : out[i].id = t
             /\ \A i, j \in 1..Len(out) : out[i].id = out[j].id => i = j]_vars

\* a filtered listing in which the sort moved the newer task, collected second,
\* in front of the older one, and the filter kept both
C29_Witness ==
    /\ bout.kind = "List" /\ bout.states = {STOPPED, DIED} /\ ~bout.include_archived
    /\ Len(bout.entries) = 2
    /\ bout.entries[1].id = 2 /\ bout.entries[2].id = 1
    /\ bout.entries[1].updated > bout.entries[2].updated


\* C30: find_archived_task(id) answers with the task directory named id and
\* its metadata wherever under archive/ that directory sits, below any chain
\* of bucket directories and whatever the order in which directories are
\* read, and answers none when no directory under archive/ is named id.
C30_FoundAtAnyDepth ==
    [][(bout' # bout /\ bout'.op = "find_archived_task") =>
          IF tstore[bout'.name].loc = "archived"
          THEN /\ bout'.kind = "Metadata"
               /\ bout'.dir = tstore[bout'.name].path
               /\ bout'.id = bout'.name
               /\ bout'.state = tstore[bout'.name].state
          ELSE bout'.kind = "None"]_vars

\* a task found below MaxDepth bucket levels while another task sits directly
\* under archive/
C30_Witness ==
    /\ bout.kind = "Metadata" /\ bout.op = "find_archived_task"
    /\ Len(bout.dir) = MaxDepth + 1
    /\ \E t \in TaskIds : tstore[t].loc = "archived" /\ Len(tstore[t].path) = 1


\* C31: when the worker's process ends after it read /quit (it is in
\* Worker::shutdown) or while a SIGTERM sent to it is being delivered, nothing
\* is left in its log buffer, task.pipe and task.pid are gone, task.json
\* stores STOPPED and the process exits with status 0.
C31_GracefulShutdown ==
    [][(alive /\ ~alive' /\ (wpc = "sd_exit" \/ sig = "TERM")) =>
          /\ wbuf = 0
          /\ ~pipe' /\ pidf' = None
          /\ json'.state = STOPPED
          /\ exitcode' = "ok"]_vars


\* C32: when the worker ends with an error at a point where the task
\* directory exists (the assistant of a follow-up turn cannot be spawned, the
\* assistant exited nonzero, the log or the FIFO cannot be set up), task.json
\* stores DIED and task.pid is gone once the process has exited.
FatalPcs == {"init_log", "init_pipe", "inv_spawn", "end_ret"}

C32_FatalFailureMarksDied ==
    [][(alive /\ ~alive' /\ exitcode' = "err" /\ dir /\ wpc \in FatalPcs) =>
          json'.state = DIED /\ pidf' = None]_vars


\* C33: no step of a control operation takes task.pid or task.pipe away while
\* the worker process is alive (the worker's own steps are those that move
\* its position).
C33_FilesKeptWhileAlive ==
    [][(alive /\ alive' /\ wpc' = wpc) =>
          /\ pidf # None => pidf' # None
          /\ pipe => pipe']_vars


\* C34: the worker takes the lines of the FIFO one at a time from the front;
\* a blank line starts nothing, the first /quit line sends it into shutdown,
\* any other line becomes the prompt of exactly one follow-up turn, started
\* before the next line is taken; once in shutdown the worker starts no turn
\* and takes no line, and the lines still queued go away with the process.
ShutdownPcs == {"sd_read", "sd_write", "sd_pipe", "sd_pid", "sd_exit"}
InvocationPcs == {"inv_read", "inv_write", "inv_spawn"}

C34_OneTurnPerLine ==
    /\ [][(alive /\ alive' /\ wpc = "next" /\ (wpc' # wpc \/ wprompt' # wprompt))
            => /\ fifo # <<>> /\ fifo' = Tail(fifo)
               /\ Head(fifo) # Blank
               /\ IF Head(fifo) = Quit
                  THEN wpc' = "sd_read" /\ turns' = turns
                  ELSE wpc' = "inv_read" /\ wprompt' = Head(fifo) /\ turns' = turns]_vars
    /\ [][(alive /\ alive' /\ wpc = "next" /\ wpc' = "next" /\ Len(fifo') < Len(fifo))
            => Head(fifo) = Blank /\ turns' = turns]_vars
    /\ [][(alive /\ alive' /\ wpc \in InvocationPcs)
            => /\ wprompt' = wprompt
               /\ wpc' \in InvocationPcs \cup {"turn"}
               /\ (wpc' = "turn") = (turns' = Append(turns, wprompt))
               /\ turns' # turns => wpc = "inv_spawn"]_vars
    /\ [][(turns' # turns) => wpc \in {"boot", "inv_spawn"}]_vars
    /\ [][(alive /\ wpc \in ShutdownPcs)
            => /\ turns' = turns
               /\ wpc' \in ShutdownPcs \cup {"dead"}
               /\ alive' => \E k \in 0..1 : Len(fifo') = Len(fifo) + k]_vars
    /\ [][(alive /\ ~alive') => fifo' = <<>>]_vars

\* the worker exited after /quit with a prompt queued behind it: that prompt
\* was accepted by a send and never had a turn
C34_Witness ==
    /\ exitcode = "ok" /\ ~alive
    /\ turns = <<InitialPrompt, "p1">>
    /\ "p2" \in Range(sentLog)


\* C35: task.log only grows at its end, and once the session exists its
\* lines are the lines received from the assistant in the order of their
\* reception: those received before the handshake first, in that order.
IsPrefix(p, q) == Len(p) <= Len(q) /\ SubSeq(q, 1, Len(p)) = p

C35_LogAppendOnlyInOrder ==
    /\ [][IsPrefix(logio.file, logio'.file)]_vars
    /\ [][logio'.session => IsPrefix(logio'.file, logio'.recv)]_vars


\* C36: both probes answer not alive for a pid <= 0 without calling kill,
\* not alive for ESRCH and alive for EPERM, and hand any other errno to the
\* caller as an error.
C36_ProbeMapping ==
    [][(bout' # bout /\ bout'.op \in {"common", "derive"}) =>
          /\ bloc.pid <= 0 => bout'.kind = "Ok" /\ ~bout'.running /\ ~bout'.probed
          /\ (bloc.pid > 0 /\ bloc.res = "ok") => bout'.kind = "Ok" /\ bout'.running
          /\ (bloc.pid > 0 /\ bloc.res = "ESRCH") => bout'.kind = "Ok" /\ ~bout'.running
          /\ (bloc.pid > 0 /\ bloc.res = "EPERM") => bout'.kind = "Ok" /\ bout'.running
          /\ (bloc.pid > 0 /\ bloc.res = "EINVAL") => bout'.kind = "Err"]_vars


\* C37: the state stored in task.json of the active task directory changes
\* only from RUNNING to STOPPED or DIED, from STOPPED to RUNNING, and from
\* STOPPED or DIED to ARCHIVED.
AllowedStoredMoves == {<<RUNNING, STOPPED>>, <<RUNNING, DIED>>, <<STOPPED, RUNNING>>,
                       <<STOPPED, ARCHIVED>>, <<DIED, ARCHIVED>>}

C37_StoredStateMoves ==
    [][(json.state # None /\ json'.state # None /\ json'.state # json.state)
          => <<json.state, json'.state>> \in AllowedStoredMoves]_vars


\* C38: a get_status that returns while a stop_task call is between its
\* SIGTERM and its return, or while the worker is in its own shutdown, reports
\* RUNNING or STOPPED (for a task whose stored state it did not read as DIED
\* and whose worker did not fail by itself).
StopWindowPcs == {"st_wait", "st_killed", "st_rmpid", "st_mread", "st_mwrite"}

C38_NoDiedWhileStopping ==
    [][(pc["c2"] = "gs_probe" /\ pc'["c2"] = "idle"
        /\ lmeta["c2"].state # DIED /\ exitcode # "err"
        /\ (pc["c1"] \in StopWindowPcs \/ (alive /\ wpc \in ShutdownPcs)))
          => outcome'.state \in {RUNNING, STOPPED}]_vars


\* C39: every follow-up turn the worker starts has as its prompt a text that
\* a send delivered, no text gets more than one turn, and no text that was
\* sent as a prompt makes the worker leave its prompt loop.
C39_SentTextIsOnePrompt ==
    /\ [][(turns' # turns /\ wpc = "inv_spawn") => wprompt \in Range(sentLog)]_vars
    /\ [][(wpc = "next" /\ wpc' = "sd_read") => Head(fifo) \notin Range(sentLog)]_vars
    /\ [](\A i, j \in 1..Len(turns) : turns[i] = turns[j] => i = j)


\* the worker process has ended and cannot come back: nothing is appended to
\* task.log any more
WorkerGone == ~alive /\ wpc = "dead"

\* C40: a log --follow without --forever whose task's worker is gone leaves
\* the follow loop after finitely many polls, also when the worker was killed
\* without updating task.json; a log --forever never leaves the loop by itself.
C40_FollowTerminates ==
    /\ (follow.pc = "loop" /\ ~follow.forever /\ WorkerGone) ~> (follow.pc = "done")
    /\ [](follow.forever => follow.pc # "done")

====
